---- MODULE Spec2Model ----
(***************************************************************************)
(* GizmoSQL UI: the session registry, the HTTP handlers (Next.js routes    *)
(* and the Express router) and the query paginator.                        *)
(*                                                                         *)
(* SQL text is a sequence of lexical units.  A unit is either a single     *)
(* character (" ", "\n", "/", "*", "-", ";", "1") or a whole word made of  *)
(* letters ("SELECT", "select", "INSERT", ...).  The regular expressions   *)
(* of the code only look at the single characters, so a word behaves as    *)
(* one letter would.  No two units of Alphabet concatenate to a keyword.   *)
(***************************************************************************)
EXTENDS Integers, Sequences, FiniteSets, TLC

VARIABLES
    impl,          \* "next" (src/app/api/*) or "express" (backend/src/routes/api.ts)
    connections,   \* the session map: session id -> service handle
    svcClient,     \* service handle -> whether GizmoSQLService.client is non-null
    client,        \* service handle -> state of the external FlightSQLClient
    nextSid,       \* the next session id crypto.randomUUID() yields
    nextHandle,    \* the next GizmoSQLService object to be constructed
    pc,            \* request slot -> position of the handler running in it
    req,           \* request slot -> the request being handled
    svc,           \* request slot -> the handler's local `service`
    executed,      \* request slot -> statements passed to client.execute
    last,          \* the response the latest step sent, with its request
    connected,     \* history: session ids returned by a successful connect
    disconnected,  \* history: registered ids whose disconnect returned success
    owner,         \* history: session id -> the handle its connect created
    raced,         \* history: a connect and a disconnect settled while both in flight
    sqlIn,         \* classifier harness: the SQL text under classification
    sqlOut,        \* classifier harness: "?" or the verdict of canPaginate
    arg,           \* function harness: the input of the function applied
    out,           \* function harness: <<>> or <<result>> of the function
    servers,       \* browser: AppState.servers, each with its id and sessionId
    notebooks,     \* browser: AppState.notebooks, each with its cells
    activeNotebookId, \* browser: AppState.activeNotebookId, 0 for null
    apiSessionId,  \* browser: ApiClient.sessionId of the shared `api`, 0 for null
    calls,         \* browser: the requests sent and not yet answered
    timers,        \* browser: setTimeout callbacks not yet run, with their closures
    showServerSelect, \* browser: cell ids whose server selection modal is open
    storage,       \* browser: localStorage['gizmosql-ui-state']
    nextId         \* browser: the next id (crypto.randomUUID, request numbers)

uiVars == <<servers, notebooks, activeNotebookId, apiSessionId, calls, timers,
            showServerSelect, storage, nextId>>

vars == <<impl, connections, svcClient, client, nextSid, nextHandle, pc, req,
          svc, executed, last, connected, disconnected, owner, raced,
          sqlIn, sqlOut, arg, out, servers, notebooks, activeNotebookId,
          apiSessionId, calls, timers, showServerSelect, storage, nextId>>

harnessVars == <<sqlIn, sqlOut, arg, out, uiVars>>

\* The browser after the page has loaded with nothing saved: initialState
\* (saved by the effect that follows the first render), an ApiClient without
\* session, nothing sent, nothing scheduled.
\* JSON.stringify({...state, servers: []}) under 'gizmosql-ui-state'.
Saved(st) == [notebooks |-> st.notebooks, activeNotebookId |-> st.activeNotebookId]

InitApp ==
    /\ servers = <<>>
    /\ notebooks = <<>>
    /\ activeNotebookId = 0
    /\ apiSessionId = 0
    /\ calls = {}
    /\ timers = {}
    /\ showServerSelect = {}
    /\ storage = Saved([notebooks |-> <<>>, activeNotebookId |-> 0])
    /\ nextId = 1

serverVars == <<impl, connections, svcClient, client, nextSid, nextHandle, pc,
                req, svc, executed, last, connected, disconnected, owner, raced>>

-----------------------------------------------------------------------------
(* Bounds of the model. *)

\* Concurrent connect / disconnect requests of the registry specification.
MaxReq == 2
\* Requests in flight at once in the specification of all the handlers.
MaxInFlight == 1
\* GizmoSQLService objects ever constructed (connect attempts with a host).
MaxConnects == 2
\* Rows of the underlying result of a statement.
MaxRows == 3
\* Largest numeric limit a request carries.
MaxLimit == 2
\* Largest numeric offset a request carries.
MaxOffset == 1
\* Longest SQL text handed to the classifier harness.
MaxLen == 6

-----------------------------------------------------------------------------
(* SQL text helpers. *)

WS == {" ", "\n"}

Alphabet == {"SELECT", "select", "INSERT", "1", " ", "\n", "/", "*", "-"}

Min(S) == CHOOSE x \in S : \A y \in S : x <= y

\* String.prototype.trim, leading side.
RECURSIVE TrimStart(_)
TrimStart(s) ==
    IF s = <<>> THEN <<>>
    ELSE IF Head(s) \in WS THEN TrimStart(Tail(s)) ELSE s

\* String.prototype.trim, trailing side.
RECURSIVE TrimEnd(_)
TrimEnd(s) ==
    IF s = <<>> THEN <<>>
    ELSE IF s[Len(s)] \in WS THEN TrimEnd(SubSeq(s, 1, Len(s) - 1)) ELSE s

Trim(s) == TrimEnd(TrimStart(s))

\* normalized.replace(/\/\*[\s\S]*?\*\//g, ''): every "/*" up to the nearest
\* "*/" after it is deleted; a "/*" with no "*/" after it is kept.
RECURSIVE StripBlockComments(_)
StripBlockComments(s) ==
    IF s = <<>> THEN <<>>
    ELSE IF Len(s) >= 2 /\ s[1] = "/" /\ s[2] = "*"
         THEN LET C == {j \in 3..(Len(s) - 1) : s[j] = "*" /\ s[j + 1] = "/"}
              IN  IF C = {}
                  THEN <<s[1]>> \o StripBlockComments(Tail(s))
                  ELSE StripBlockComments(SubSeq(s, Min(C) + 2, Len(s)))
         ELSE <<s[1]>> \o StripBlockComments(Tail(s))

\* normalized.replace(/--[^\n]*/g, ''): every "--" up to (not including) the
\* next newline is deleted.
RECURSIVE StripLineComments(_)
StripLineComments(s) ==
    IF s = <<>> THEN <<>>
    ELSE IF Len(s) >= 2 /\ s[1] = "-" /\ s[2] = "-"
         THEN LET N == {j \in 3..Len(s) : s[j] = "\n"}
              IN  IF N = {} THEN <<>>
                  ELSE <<"\n">> \o StripLineComments(SubSeq(s, Min(N) + 1, Len(s)))
         ELSE <<s[1]>> \o StripLineComments(Tail(s))

\* normalized.split(/\s+/)[0]: the text before the first whitespace.
FirstWord(s) ==
    LET W == {j \in 1..Len(s) : s[j] \in WS}
    IN  IF W = {} THEN s ELSE SubSeq(s, 1, Min(W) - 1)

\* String.prototype.toUpperCase on one unit.
ToUpperCase(u) ==
    CASE u = "select" -> "SELECT"
      [] u = "with"   -> "WITH"
      [] u = "table"  -> "TABLE"
      [] u = "values" -> "VALUES"
      [] u = "insert" -> "INSERT"
      [] OTHER        -> u

paginatableKeywords == {"SELECT", "WITH", "TABLE", "VALUES"}

\* paginatableKeywords.includes(firstWord): the word is one unit, a keyword.
IncludesWord(w) ==
    /\ Len(w) = 1
    /\ ToUpperCase(w[1]) \in paginatableKeywords

canPaginate(sql) ==
    IncludesWord(FirstWord(Trim(StripLineComments(StripBlockComments(Trim(sql))))))

\* sql.replace(/;+\s*$/, ''): a run of semicolons followed only by whitespace
\* up to the end of the text is deleted, together with that whitespace.
StripTrailingSemicolons(sql) ==
    LET t == TrimEnd(sql)
        S == {j \in 1..Len(t) : \A k \in j..Len(t) : t[k] = ";"}
    IN  IF S = {} THEN sql ELSE SubSeq(t, 1, Min(S) - 1)

-----------------------------------------------------------------------------
(* Requests and responses. *)

\* No session id on the request: the field or header is absent (or empty).
NoSid == -1
\* A well-formed session id that no connect ever returned.
UnknownSid == 0

\* A limit / offset that is absent or not of type number.
NotNum == [num |-> FALSE, val |-> 0]
Num(n) == [num |-> TRUE, val |-> n]

NoReq ==
    [kind |-> "none", sid |-> NoSid, host |-> FALSE, hasSql |-> FALSE,
     sql |-> <<>>, limit |-> NotNum, offset |-> NotNum]

Slots == DOMAIN pc

Request(r, kind, sid) == [NoReq EXCEPT !.kind = kind, !.sid = sid]

ConnectRequest(r, host) == [Request(r, "connect", NoSid) EXCEPT !.host = host]

QueryRequest(r, sid, hasSql, sql, limit, offset) ==
    [Request(r, "query", sid) EXCEPT
        !.hasSql = hasSql, !.sql = sql, !.limit = limit, !.offset = offset]

\* What a handler answered: the request, the HTTP status and the JSON body,
\* with the statements the request passed to the client (stmts), the handle
\* it ran on and the size of the underlying result (total).
Response(rq, status) ==
    [req |-> rq, status |-> status, sid |-> NoSid, rows |-> <<>>, rowCount |-> 0,
     hasMore |-> FALSE, total |-> 0, stmts |-> <<>>, handle |-> 0]

NoResponse == Response(NoReq, 0)

\* Slot r can take a request.
Free(r) == pc[r] = "idle" /\ last = NoResponse

\* The handler in slot r returns `response`; the slot is free again.
Return(r, response) ==
    /\ last = NoResponse
    /\ last' = response
    /\ UNCHANGED harnessVars
    /\ pc' = [pc EXCEPT ![r] = "idle"]
    /\ req' = [req EXCEPT ![r] = NoReq]
    /\ svc' = [svc EXCEPT ![r] = 0]
    /\ executed' = [executed EXCEPT ![r] = <<>>]

\* The handler in slot r suspends at an await, at position `at`.
Await(r, rq, at, h, stmts) ==
    /\ pc' = [pc EXCEPT ![r] = at]
    /\ req' = [req EXCEPT ![r] = rq]
    /\ svc' = [svc EXCEPT ![r] = h]
    /\ executed' = [executed EXCEPT ![r] = stmts]
    /\ last = NoResponse
    /\ last' = last
    /\ UNCHANGED harnessVars

\* The response of the latest step leaves the server (NextResponse.json /
\* res.json): nothing of the program's state changes.
Deliver ==
    /\ last # NoResponse
    /\ last' = NoResponse
    /\ UNCHANGED <<impl, connections, svcClient, client, nextSid, nextHandle, pc,
                   req, svc, executed, connected, disconnected, owner, raced,
                   sqlIn, sqlOut, arg, out, uiVars>>

-----------------------------------------------------------------------------
(* The session map (lib/connections.ts; `connections` in routes/api.ts). *)

getConnection(conns, sessionId) ==
    IF sessionId \in DOMAIN conns THEN conns[sessionId] ELSE 0

\* A map update that forgets every other entry.
setConnectionOnly(conns, sessionId, service) == sessionId :> service

\* A map update that hands the new service to every entry.
setConnectionShared(conns, sessionId, service) ==
    [k \in DOMAIN conns \cup {sessionId} |-> service]

setConnection(conns, sessionId, service) ==
    [k \in DOMAIN conns \cup {sessionId} |->
        IF k = sessionId THEN service ELSE conns[k]]

\* A delete that leaves the map as it is.
deleteConnectionNoop(conns, sessionId) == conns

deleteConnection(conns, sessionId) ==
    [k \in DOMAIN conns \ {sessionId} |-> conns[k]]

-----------------------------------------------------------------------------
(* connect: POST /api/connect. *)

\* A connect that registers the session whether or not the round-trip passed.
RegisterAlways(conns, ok, sessionId, service) == setConnection(conns, sessionId, service)

\* The registry after `await service.connect()` settled: the session is
\* stored only when connect() did not throw.
Register(conns, ok, sessionId, service) ==
    IF ok THEN setConnection(conns, sessionId, service) ELSE conns

\* Up to the first await: the host check, new GizmoSQLService(...), and
\* service.connect() creating the client and starting client.getCatalogs().
ConnectStart(r, host) ==
    /\ pc[r] = "idle"
    /\ IF ~host
       THEN /\ Return(r, Response(ConnectRequest(r, host), 400))
            /\ UNCHANGED <<svcClient, client, nextHandle>>
       ELSE /\ nextHandle <= MaxConnects
            /\ svcClient' = (nextHandle :> TRUE) @@ svcClient
            /\ client' = (nextHandle :> "open") @@ client
            /\ nextHandle' = nextHandle + 1
            /\ Await(r, ConnectRequest(r, host), "connecting", nextHandle, <<>>)
    /\ UNCHANGED <<impl, connections, nextSid, connected, disconnected, owner, raced>>

\* The test round-trip settles: on success a fresh session id is stored.
ConnectFinish(r, ok) ==
    /\ pc[r] = "connecting"
    /\ connections' = Register(connections, ok, nextSid, svc[r])
    /\ IF ok
       THEN /\ nextSid' = nextSid + 1
            /\ connected' = connected \cup {nextSid}
            /\ owner' = (nextSid :> svc[r]) @@ owner
            /\ Return(r, [Response(req[r], 200) EXCEPT !.sid = nextSid, !.handle = svc[r]])
       ELSE /\ Return(r, [Response(req[r], 500) EXCEPT !.handle = svc[r]])
            /\ UNCHANGED <<nextSid, connected, owner>>
    /\ raced' = (raced \/ (ok /\ \E q \in Slots : pc[q] \in {"closing", "yielded"}))
    /\ UNCHANGED <<impl, svcClient, client, nextHandle, disconnected>>

-----------------------------------------------------------------------------
(* disconnect: POST /api/disconnect. *)

\* A disconnect that reports an unknown session as an error.
DisconnectStatusStrict(found, closeOk) ==
    IF ~found THEN 404 ELSE IF closeOk THEN 200 ELSE 500

\* The status of a disconnect: success unless close() threw.
DisconnectStatus(found, closeOk) ==
    IF found /\ ~closeOk THEN 500 ELSE 200

\* Up to the first await: the lookup and, for a registered session,
\* service.close() calling client.close() when the client is set.  The
\* external client is "closing" from the call of close() until it settles.
DisconnectStart(r, sid) ==
    /\ pc[r] = "idle"
    /\ LET rq == Request(r, "disconnect", sid)
           h  == getConnection(connections, sid)
       IN  IF h = 0
           THEN /\ Return(r, Response(rq, DisconnectStatus(FALSE, TRUE)))
                /\ UNCHANGED client
           ELSE /\ Await(r, rq, IF svcClient[h] THEN "closing" ELSE "yielded", h, <<>>)
                /\ client' = IF svcClient[h] THEN [client EXCEPT ![h] = "closing"]
                                             ELSE client
    /\ UNCHANGED <<impl, connections, svcClient, nextSid, nextHandle,
                   connected, disconnected, owner, raced>>

\* `await service.close()` settles; the entry is deleted unless close threw.
\* A client whose close() threw is "failed", unless another call closed it.
DisconnectFinish(r, ok) ==
    /\ pc[r] \in {"closing", "yielded"}
    /\ LET closeOk == ok \/ pc[r] = "yielded"
           resp == [Response(req[r], DisconnectStatus(TRUE, closeOk)) EXCEPT !.handle = svc[r]]
       IN  /\ Return(r, resp)
           /\ IF closeOk
              THEN /\ connections' = deleteConnection(connections, req[r].sid)
                   /\ disconnected' = disconnected \cup {req[r].sid}
                   /\ IF pc[r] = "closing"
                      THEN /\ svcClient' = [svcClient EXCEPT ![svc[r]] = FALSE]
                           /\ client' = [client EXCEPT ![svc[r]] = "closed"]
                      ELSE UNCHANGED <<svcClient, client>>
              ELSE /\ client' = [client EXCEPT ![svc[r]] =
                                    IF @ = "closed" THEN "closed" ELSE "failed"]
                   /\ UNCHANGED <<connections, disconnected, svcClient>>
           /\ raced' = (raced \/ (closeOk /\ \E q \in Slots : pc[q] = "connecting"))
    /\ UNCHANGED <<impl, nextSid, nextHandle, connected, owner>>

-----------------------------------------------------------------------------
(* query: POST /api/query. *)

DefaultLimit == 1000
DefaultOffset == 0

\* A page size that honours the request's limit only when offset is numeric
\* too.
PageLimitCoupled(rq) ==
    IF rq.limit.num /\ rq.offset.num THEN rq.limit.val ELSE DefaultLimit

\* typeof limit === 'number' ? limit : 1000
PageLimit(rq) == IF rq.limit.num THEN rq.limit.val ELSE DefaultLimit

\* typeof offset === 'number' ? offset : 0
PageOffset(rq) == IF rq.offset.num THEN rq.offset.val ELSE DefaultOffset

\* !sessionId || !sql: an absent or empty field.
MissingField(rq) == rq.sid = NoSid \/ ~rq.hasSql \/ rq.sql = <<>>

\* `SELECT * FROM (${sql.replace(/;+\s*$/, '')}) AS __paginated_query
\*  LIMIT ${pageLimit + 1} OFFSET ${pageOffset}`
PaginatedSql(sql, pageLimit, pageOffset) ==
    [wrapped |-> TRUE, text |-> StripTrailingSemicolons(sql),
     limit |-> pageLimit + 1, offset |-> pageOffset]

\* A direct execution that still strips the trailing semicolons.
DirectSqlStripped(sql) ==
    [wrapped |-> FALSE, text |-> StripTrailingSemicolons(sql), limit |-> 0, offset |-> 0]

\* service.execute(sql) of the else branch: the request's text as it is.
DirectSql(sql) ==
    [wrapped |-> FALSE, text |-> sql, limit |-> 0, offset |-> 0]

\* The statement the handler passes to service.execute.
Statement(rq) ==
    IF canPaginate(rq.sql)
    THEN PaginatedSql(rq.sql, PageLimit(rq), PageOffset(rq))
    ELSE DirectSql(rq.sql)

Max2(a, b) == IF a >= b THEN a ELSE b
Min2(a, b) == IF a <= b THEN a ELSE b

\* Rows lo..hi of a result, as their positions in it.
RowRange(lo, hi) == [i \in 1..Max2(hi - lo + 1, 0) |-> lo + i - 1]

\* What client.execute returns for a statement whose inner text has `total`
\* rows: all of them, or for the wrapper the rows after OFFSET, at most
\* LIMIT of them (a negative OFFSET skips nothing, where the server accepts
\* it at all; requests carry limit >= -1, so LIMIT is never negative).
ServerRows(stmt, total) ==
    IF ~stmt.wrapped THEN RowRange(1, total)
    ELSE LET skip == Max2(stmt.offset, 0)
         IN  RowRange(skip + 1, Min2(total, skip + stmt.limit))

\* Array.prototype.slice(0, end).
Slice(rows, end) ==
    LET k == IF end < 0 THEN Max2(Len(rows) + end, 0) ELSE Min2(end, Len(rows))
    IN  SubSeq(rows, 1, k)

\* A page test that also reports a full page as having more.
HasMoreInclusive(rows, pageLimit) == Len(rows) >= pageLimit

\* result.rows.length > pageLimit
HasMore(rows, pageLimit) == Len(rows) > pageLimit

\* The JSON body built from what service.execute returned (rowCount is
\* rows.length there): trimmed to the page when the statement was wrapped.
QueryResult(rq, stmt, rows) ==
    LET more == stmt.wrapped /\ HasMore(rows, PageLimit(rq))
    IN  [rows     |-> IF more THEN Slice(rows, PageLimit(rq)) ELSE rows,
         rowCount |-> IF more THEN PageLimit(rq) ELSE Len(rows),
         hasMore  |-> more]

\* A handler that looks the session up before validating the body.
QueryEntryLookupFirst(conns, rq) ==
    IF getConnection(conns, rq.sid) = 0 THEN 404
    ELSE IF MissingField(rq) THEN 400 ELSE 0

\* The checks before execution, in the handler's order: 400, 404, or 0 to go on.
QueryEntry(conns, rq) ==
    IF MissingField(rq) THEN 400
    ELSE IF getConnection(conns, rq.sid) = 0 THEN 404 ELSE 0

\* Up to the first await: validation, lookup, canPaginate and the call of
\* service.execute, which throws at once when the service has no client.
QueryStart(r, rq) ==
    /\ pc[r] = "idle"
    /\ rq.kind = "query"
    /\ LET entry == QueryEntry(connections, rq)
           h     == getConnection(connections, rq.sid)
       IN  IF entry # 0 THEN Return(r, Response(rq, entry))
           ELSE IF ~svcClient[h] THEN Return(r, [Response(rq, 500) EXCEPT !.handle = h])
           ELSE Await(r, rq, "executing", h, <<Statement(rq)>>)
    /\ UNCHANGED <<impl, connections, svcClient, client, nextSid, nextHandle,
                   connected, disconnected, owner, raced>>

\* A handler that runs a failed statement once more before giving up.
QueryFinishRetry(r, ok, total) ==
    /\ pc[r] = "executing"
    /\ IF ~ok /\ Len(executed[r]) < 2
       THEN Await(r, req[r], "executing", svc[r], Append(executed[r], executed[r][1]))
       ELSE Return(r, [Response(req[r], IF ok THEN 200 ELSE 500) EXCEPT
                !.rows = ServerRows(executed[r][1], total), !.total = total,
                !.rowCount = Len(ServerRows(executed[r][1], total)),
                !.stmts = executed[r], !.handle = svc[r]])
    /\ UNCHANGED <<impl, connections, svcClient, client, nextSid, nextHandle,
                   connected, disconnected, owner, raced>>

\* client.execute settles: it threw, or returned the rows of a result whose
\* inner statement has `total` rows.
QueryFinish(r, ok, total) ==
    /\ pc[r] = "executing"
    /\ LET stmt == executed[r][1]
           res  == QueryResult(req[r], stmt, ServerRows(stmt, total))
       IN  IF ok
           THEN Return(r, [Response(req[r], 200) EXCEPT
                    !.rows = res.rows, !.rowCount = res.rowCount,
                    !.hasMore = res.hasMore, !.total = total,
                    !.stmts = executed[r], !.handle = svc[r]])
           ELSE Return(r, [Response(req[r], 500) EXCEPT
                    !.stmts = executed[r], !.handle = svc[r]])
    /\ UNCHANGED <<impl, connections, svcClient, client, nextSid, nextHandle,
                   connected, disconnected, owner, raced>>

-----------------------------------------------------------------------------
(* metadata: GET /api/catalogs, /schemas, /tables, /columns. *)

MetaKinds == {"catalogs", "schemas", "tables", "columns"}

\* Both implementations answering a request without a header alike.
MetaEntryUniform(flavour, conns, sid) ==
    IF getConnection(conns, sid) = 0 THEN 404 ELSE 0

\* The checks before the listing: the Next.js routes reject a request with
\* no X-Session-Id header (400); the Express router has no such check.
MetaEntry(flavour, conns, sid) ==
    IF flavour = "next" /\ sid = NoSid THEN 400
    ELSE IF getConnection(conns, sid) = 0 THEN 404 ELSE 0

\* Up to the first await: header, lookup and the call of service.getX.
MetaStart(r, kind, sid) ==
    /\ pc[r] = "idle"
    /\ LET rq    == Request(r, kind, sid)
           entry == MetaEntry(impl, connections, sid)
           h     == getConnection(connections, sid)
       IN  IF entry # 0 THEN Return(r, Response(rq, entry))
           ELSE IF ~svcClient[h] THEN Return(r, [Response(rq, 500) EXCEPT !.handle = h])
           ELSE Await(r, rq, "listing", h, <<>>)
    /\ UNCHANGED <<impl, connections, svcClient, client, nextSid, nextHandle,
                   connected, disconnected, owner, raced>>

\* The listing settles.
MetaFinish(r, ok) ==
    /\ pc[r] = "listing"
    /\ Return(r, [Response(req[r], IF ok THEN 200 ELSE 500) EXCEPT !.handle = svc[r]])
    /\ UNCHANGED <<impl, connections, svcClient, client, nextSid, nextHandle,
                   connected, disconnected, owner, raced>>

-----------------------------------------------------------------------------
(* Specifications. *)

\* Session ids a request may name: none, one never issued, or one issued.
SidInputs == {NoSid, UnknownSid} \cup (1..(nextSid - 1))

Sel1 == <<"SELECT", " ", "1">>
Ins1 == <<"INSERT", " ", "1", ";">>

\* SQL texts of the query requests of the paginator specification.
SqlSamples ==
    {<<>>, <<" ">>, Sel1, Ins1,
     <<"select", " ", "1", ";", ";", "\n">>,
     <<"/", "*", "INSERT", "*", "/", "with", " ", "1">>,
     <<"-", "-", "SELECT", "\n", "insert", ";", " ">>,
     <<"TABLE", " ", "1">>, <<"values", "\n", "1", " ", ";">>,
     <<"SELECT", " ", "1", ";", " ", ";">>}

LimitInputs == {NotNum} \cup {Num(n) : n \in (-1)..MaxLimit}
OffsetInputs == {NotNum} \cup {Num(n) : n \in (-1)..MaxOffset}

\* Query requests of the registry specification: paging fields absent.
LiteQueries(r) ==
    {QueryRequest(r, sid, hasSql, IF hasSql THEN sql ELSE <<>>, NotNum, NotNum) :
        sid \in SidInputs, hasSql \in BOOLEAN, sql \in {<<>>, Sel1, Ins1}}

\* Query requests of the paginator specification.
FullQueries(r) ==
    {QueryRequest(r, sid, hasSql, IF hasSql THEN sql ELSE <<>>, limit, offset) :
        sid \in SidInputs, hasSql \in BOOLEAN, sql \in SqlSamples,
        limit \in LimitInputs, offset \in OffsetInputs}

InitServer(slots, impls) ==
    /\ impl \in impls
    /\ connections = <<>>
    /\ svcClient = <<>>
    /\ client = <<>>
    /\ nextSid = 1
    /\ nextHandle = 1
    /\ pc = [r \in slots |-> "idle"]
    /\ req = [r \in slots |-> NoReq]
    /\ svc = [r \in slots |-> 0]
    /\ executed = [r \in slots |-> <<>>]
    /\ last = NoResponse
    /\ connected = {}
    /\ disconnected = {}
    /\ owner = <<>>
    /\ raced = FALSE

Init ==
    /\ InitServer(1..MaxInFlight, {"next", "express"})
    /\ InitApp
    /\ sqlIn = <<>>
    /\ sqlOut = "?"
    /\ arg = <<>>
    /\ out = <<>>

Next ==
    \/ \E r \in Slots, host \in BOOLEAN : ConnectStart(r, host)
    \/ \E r \in Slots, ok \in BOOLEAN : ConnectFinish(r, ok)
    \/ \E r \in Slots, sid \in SidInputs : DisconnectStart(r, sid)
    \/ \E r \in Slots, ok \in BOOLEAN : DisconnectFinish(r, ok)
    \/ \E r \in Slots : Free(r) /\ \E rq \in LiteQueries(r) : QueryStart(r, rq)
    \/ \E r \in Slots, ok \in BOOLEAN, total \in 0..1 : QueryFinish(r, ok, total)
    \/ \E r \in Slots, kind \in MetaKinds, sid \in SidInputs : MetaStart(r, kind, sid)
    \/ \E r \in Slots, ok \in BOOLEAN : MetaFinish(r, ok)
    \/ Deliver

\* Every handler of both implementations.
Spec == Init /\ [][Next]_vars

InitRegistry ==
    /\ InitServer(1..MaxReq, {"next", "express"})
    /\ InitApp
    /\ sqlIn = <<>>
    /\ sqlOut = "?"
    /\ arg = <<>>
    /\ out = <<>>

NextRegistry ==
    \/ \E r \in Slots, host \in BOOLEAN : ConnectStart(r, host)
    \/ \E r \in Slots, ok \in BOOLEAN : ConnectFinish(r, ok)
    \/ \E r \in Slots, sid \in SidInputs : DisconnectStart(r, sid)
    \/ \E r \in Slots, ok \in BOOLEAN : DisconnectFinish(r, ok)
    \/ Deliver

\* The session map under concurrent connect and disconnect requests.
SpecRegistry == InitRegistry /\ [][NextRegistry]_vars

InitQuery ==
    /\ InitServer({1}, {"next", "express"})
    /\ InitApp
    /\ sqlIn = <<>>
    /\ sqlOut = "?"
    /\ arg = <<>>
    /\ out = <<>>

NextQuery ==
    \/ \E r \in Slots, host \in BOOLEAN : ConnectStart(r, host)
    \/ \E r \in Slots, ok \in BOOLEAN : ConnectFinish(r, ok)
    \/ \E r \in Slots, sid \in SidInputs : DisconnectStart(r, sid)
    \/ \E r \in Slots, ok \in BOOLEAN : DisconnectFinish(r, ok)
    \/ \E r \in Slots : Free(r) /\ \E rq \in FullQueries(r) : QueryStart(r, rq)
    \/ \E r \in Slots, ok \in BOOLEAN, total \in 0..MaxRows : QueryFinish(r, ok, total)
    \/ Deliver

\* One request at a time, with every paging field a query may carry.
SpecQuery == InitQuery /\ [][NextQuery]_vars

InitSessions ==
    /\ InitServer(1..MaxReq, {"next", "express"})
    /\ InitApp
    /\ sqlIn = <<>>
    /\ sqlOut = "?"
    /\ arg = <<>>
    /\ out = <<>>

NextSessions ==
    \/ \E r \in Slots, host \in BOOLEAN : ConnectStart(r, host)
    \/ \E r \in Slots, ok \in BOOLEAN : ConnectFinish(r, ok)
    \/ \E r \in Slots, sid \in SidInputs : DisconnectStart(r, sid)
    \/ \E r \in Slots, ok \in BOOLEAN : DisconnectFinish(r, ok)
    \/ \E r \in Slots : Free(r) /\ \E rq \in LiteQueries(r) : QueryStart(r, rq)
    \/ \E r \in Slots, ok \in BOOLEAN, total \in 0..1 : QueryFinish(r, ok, total)
    \/ \E r \in Slots, kind \in MetaKinds, sid \in SidInputs : MetaStart(r, kind, sid)
    \/ \E r \in Slots, ok \in BOOLEAN : MetaFinish(r, ok)
    \/ Deliver

\* Queries and listings of a session under concurrent disconnect requests.
SpecSessions == InitSessions /\ [][NextSessions]_vars

-----------------------------------------------------------------------------
(* Arbitrary-precision naturals, for BigInt values and for the numbers the  *)
(* normalizer compares and decodes: a sequence of bits, least significant   *)
(* first, with no leading zero bit at its end (zero is the empty sequence). *)

Zeros(k) == [i \in 1..k |-> 0]

SetMax(S) == CHOOSE x \in S : \A y \in S : y <= x

SetMin(S) == CHOOSE x \in S : \A y \in S : x <= y

BitAt(b, i) == IF i >= 1 /\ i <= Len(b) THEN b[i] ELSE 0

\* The natural of a bit sequence of at most four bits.
ToInt4(b) == BitAt(b, 1) + 2 * BitAt(b, 2) + 4 * BitAt(b, 3) + 8 * BitAt(b, 4)

\* The natural of a bit sequence of less than 31 bits.
RECURSIVE ToInt(_)
ToInt(b) ==
    IF b = <<>> THEN 0 ELSE ToInt4(b) + 16 * ToInt(SubSeq(b, 5, Len(b)))

\* Drop the zero bits at the most significant end.
Canon(b) ==
    LET S == {i \in 1..Len(b) : b[i] = 1}
    IN  IF S = {} THEN <<>> ELSE SubSeq(b, 1, SetMax(S))

\* The bits of a small natural, four at a time.
RECURSIVE BitsOf(_)
BitsOf(n) ==
    LET low == <<n % 2, (n \div 2) % 2, (n \div 4) % 2, (n \div 8) % 2>>
    IN  IF n < 16 THEN Canon(low) ELSE low \o BitsOf(n \div 16)

\* lo + hi * 2^24, for lo < 2^24.
FromHalves(hi, lo) ==
    Canon([i \in 1..24 |-> BitAt(BitsOf(lo), i)] \o BitsOf(hi))

\* b + 1: the lowest 0 bit becomes 1 and the 1 bits below it 0.
Inc(b) ==
    LET z == SetMin({i \in 1..(Len(b) + 1) : BitAt(b, i) = 0})
    IN  [i \in 1..(IF z > Len(b) THEN z ELSE Len(b)) |->
            IF i < z THEN 0 ELSE IF i = z THEN 1 ELSE b[i]]

\* a < b for canonical a, b: the longer is the larger; of equal length the
\* one with the higher differing bit set.
Less(a, b) ==
    \/ Len(a) < Len(b)
    \/ /\ Len(a) = Len(b)
       /\ \E i \in 1..Len(a) :
             /\ a[i] < b[i]
             /\ \A j \in (i + 1)..Len(a) : a[j] = b[j]

\* The natural of a bit sequence of at most twelve bits.
ToInt12(b) ==
    ToInt4(b) + 16 * ToInt4(SubSeq(b, 5, Len(b))) + 256 * ToInt4(SubSeq(b, 9, Len(b)))

\* Quotient (bits, not canonical) and remainder (an integer) of b by a small
\* m (0 < m < 2^19), twelve bits at a time from the most significant end.
RECURSIVE DivMod(_, _)
DivMod(b, m) ==
    IF b = <<>> THEN [q |-> <<>>, r |-> 0]
    ELSE LET hi == DivMod(SubSeq(b, 13, Len(b)), m)
             x  == 4096 * hi.r + ToInt12(b)
         IN  [q |-> [i \in 1..12 |-> BitAt(BitsOf(x \div m), i)] \o hi.q, r |-> x % m]

\* 2^N - b for a bit sequence b of N bits, modulo 2^N (the two's
\* complement): the bits above the lowest 1 bit are inverted.
Negate(b) ==
    LET S == {i \in 1..Len(b) : b[i] = 1}
    IN  IF S = {} THEN <<>>
        ELSE Canon([i \in 1..Len(b) |-> IF i <= SetMin(S) THEN b[i] ELSE 1 - b[i]])

-----------------------------------------------------------------------------
(* Values of the normalizer (GizmoSQLService.convertValue): cells as the    *)
(* client library hands them over, and the JSON-safe values made of them.   *)
(* An integer is a sign with a magnitude in bits; a number is written as   *)
(* an integer over a power of ten and stands for the double nearest to     *)
(* that quotient (DoubleOf).                                                *)

NullV == [t |-> "null"]
UndefinedV == [t |-> "undefined"]
BoolV(b) == [t |-> "boolean", b |-> b]
NumberV(neg, mag, scale) ==
    [t |-> "number", neg |-> neg /\ mag # <<>>, mag |-> mag,
     scale |-> IF mag = <<>> THEN 0 ELSE scale]
IntV(n) == NumberV(n < 0, BitsOf(IF n < 0 THEN -n ELSE n), 0)
BigIntV(neg, mag) == [t |-> "bigint", neg |-> neg, mag |-> mag]
\* A string: plain text, or one of the texts the normalizer writes.
TextV(s) == [t |-> "string", form |-> "text", text |-> s]
\* BigInt.prototype.toString(): the decimal digits of the integer.
DigitsV(neg, mag) == [t |-> "string", form |-> "digits", neg |-> neg, mag |-> mag]

\* Bits of one 32-bit word.
WordBits == 32

\* Number.MAX_SAFE_INTEGER = 2^53 - 1, and the bits a double keeps.
MantissaBits == 53

\* The 32-bit word of a small natural, and the word of all ones.
Word(n) == [i \in 1..WordBits |-> BitAt(BitsOf(n), i)]
OnesWord == [i \in 1..WordBits |-> 1]

\* Number(bigValue): the nearest double, ties to even.  A magnitude of at
\* most 53 bits is kept; a longer one keeps its top 53 bits, rounded by the
\* bits below them.
ToDouble(mag) ==
    IF Len(mag) <= MantissaBits THEN mag
    ELSE LET shift  == Len(mag) - MantissaBits
             top    == SubSeq(mag, shift + 1, Len(mag))
             guard  == mag[shift] = 1
             sticky == \E i \in 1..(shift - 1) : mag[i] = 1
             up     == guard /\ (sticky \/ top[1] = 1)
         IN  Zeros(shift) \o (IF up THEN Inc(top) ELSE top)

\* 10^s for a small s >= 0.
RECURSIVE TenTo(_)
TenTo(s) == IF s <= 0 THEN 1 ELSE 10 * TenTo(s - 1)

\* The double nearest to q * 2^exp (more when `rest` says that a non-zero
\* part below q was dropped), ties to even, for a canonical q: a mantissa
\* of exactly 53 bits and a binary exponent; zero has the empty mantissa.
RoundDouble(q, rest, exp) ==
    IF q = <<>> THEN [mant |-> <<>>, exp |-> 0]
    ELSE IF Len(q) <= MantissaBits
    THEN [mant |-> Zeros(MantissaBits - Len(q)) \o q,
          exp  |-> exp - (MantissaBits - Len(q))]
    ELSE LET shift  == Len(q) - MantissaBits
             top    == SubSeq(q, shift + 1, Len(q))
             guard  == q[shift] = 1
             sticky == rest \/ \E i \in 1..(shift - 1) : q[i] = 1
             up     == guard /\ (sticky \/ top[1] = 1)
             m      == IF up THEN Inc(top) ELSE top
         IN  IF Len(m) > MantissaBits
             THEN [mant |-> SubSeq(m, 2, Len(m)), exp |-> exp + shift + 1]
             ELSE [mant |-> m, exp |-> exp + shift]

\* The double a number stands for: mag / Math.pow(10, scale) as the
\* division of doubles rounds it (scale 0..5; mag an integral double, or
\* an integer to be rounded as a whole).  The dividend is cut or extended
\* at its low end to `want` bits, which leaves a guard bit below the 53
\* bits of the quotient; the bits cut off only tell whether it is exact.
DoubleOf(mag, scale) ==
    IF mag = <<>> THEN [mant |-> <<>>, exp |-> 0]
    ELSE LET ten  == TenTo(scale)
             want == MantissaBits + 3 + Len(BitsOf(ten))
             j    == Len(mag) - want
             head == IF j >= 0 THEN SubSeq(mag, j + 1, Len(mag))
                     ELSE Zeros(-j) \o mag
             low  == \E i \in 1..j : mag[i] = 1
             dm   == DivMod(head, ten)
         IN  RoundDouble(Canon(dm.q), low \/ dm.r # 0, j)

\* Math.abs(num) < Number.MAX_SAFE_INTEGER for an integral double.
BelowMaxSafe(mag) ==
    Len(mag) < MantissaBits
        \/ (Len(mag) = MantissaBits /\ \E i \in 1..MantissaBits : mag[i] = 0)

\* The words of the buffer, least significant first, as one bit sequence:
\* bigValue = (bigValue << 32) | word, from the last word down to the first.
ComposeWords(value, wordCount) ==
    [i \in 1..(WordBits * wordCount) |->
        LET w == ((i - 1) \div WordBits) + 1
        IN  IF w <= Len(value) THEN value[w][((i - 1) % WordBits) + 1] ELSE 0]

decimalWordsToNumber(value, wordCount, scale) ==
    IF wordCount = 0 THEN IntV(0)
    ELSE LET bigValue   == ComposeWords(value, wordCount)
             isNegative == bigValue[WordBits * wordCount] = 1
             mag        == IF isNegative THEN Negate(bigValue) ELSE Canon(bigValue)
             num        == ToDouble(mag)
         IN  IF scale # 0 THEN NumberV(isNegative, num, scale)
             ELSE IF BelowMaxSafe(num) THEN NumberV(isNegative, num, 0)
             ELSE DigitsV(isNegative, mag)

\* A type name (field.type.toString()) is a sequence of units: a word of
\* letters, a run of digits, or a single other character.  The absent
\* fieldType is the empty sequence.
DigitRuns == {"0", "2", "3", "10", "15", "32", "38", "128", "256"}

\* parseInt(run, 10) of a run of digits.
ParseDigits(u) ==
    CASE u = "0" -> 0 [] u = "2" -> 2 [] u = "3" -> 3 [] u = "10" -> 10
      [] u = "15" -> 15 [] u = "32" -> 32 [] u = "38" -> 38
      [] u = "128" -> 128 [] u = "256" -> 256

\* String.prototype.toLowerCase, unit by unit.
LowerUnit(u) ==
    CASE u \in {"Decimal", "DECIMAL"} -> "decimal"
      [] u \in {"Date", "DATE"} -> "date"
      [] u \in {"Timestamp", "TIMESTAMP"} -> "timestamp"
      [] u = "E" -> "e"
      [] OTHER -> u

toLowerCase(type) == [i \in 1..Len(type) |-> LowerUnit(type[i])]

\* lowerType.includes(word), for a word that is a unit of its own.
includes(type, word) == \E i \in 1..Len(type) : type[i] = word

UnitAt(type, i) == IF i >= 1 /\ i <= Len(type) THEN type[i] ELSE ""

\* The position after an optional unit of the set U at position i.
SkipOne(type, i, U) == IF UnitAt(type, i) \in U THEN i + 1 ELSE i

\* The position after \s* at position i.
SkipWs(type, i) ==
    SetMin({j \in i..(Len(type) + 1) : UnitAt(type, j) # " "})

\* /Decimal\[?\d*e([+-]?\d+)\]?/i matched at position p: the captured
\* scale as <<sign, digits>>, or <<>>.
MatchExponent(type, p) ==
    LET e == SkipOne(type, SkipOne(type, p + 1, {"["}), DigitRuns)
        d == SkipOne(type, e + 1, {"+", "-"})
    IN  IF /\ LowerUnit(UnitAt(type, p)) = "decimal"
           /\ LowerUnit(UnitAt(type, e)) = "e"
           /\ UnitAt(type, d) \in DigitRuns
        THEN <<IF UnitAt(type, e + 1) = "-" THEN -1 ELSE 1, UnitAt(type, d)>>
        ELSE <<>>

\* /Decimal\d*\s*\(\s*\d+\s*,\s*(\d+)\s*\)/i matched at position p, with
\* the brackets given: the captured digits as <<1, digits>>, or <<>>.
MatchBracketed(type, p, open, close) ==
    LET o == SkipWs(type, SkipOne(type, p + 1, DigitRuns))
        a == SkipWs(type, o + 1)
        c == SkipWs(type, a + 1)
        b == SkipWs(type, c + 1)
        z == SkipWs(type, b + 1)
    IN  IF /\ LowerUnit(UnitAt(type, p)) = "decimal"
           /\ UnitAt(type, o) = open
           /\ UnitAt(type, a) \in DigitRuns
           /\ UnitAt(type, c) = ","
           /\ UnitAt(type, b) \in DigitRuns
           /\ UnitAt(type, z) = close
        THEN <<1, UnitAt(type, b)>>
        ELSE <<>>

\* String.prototype.match: the capture of the leftmost match, or <<>>.
FirstExponent(type) ==
    LET P == {p \in 1..Len(type) : MatchExponent(type, p) # <<>>}
    IN  IF P = {} THEN <<>> ELSE MatchExponent(type, SetMin(P))

FirstBracketed(type, open, close) ==
    LET P == {p \in 1..Len(type) : MatchBracketed(type, p, open, close) # <<>>}
    IN  IF P = {} THEN <<>> ELSE MatchBracketed(type, SetMin(P), open, close)

\* parseInt(scaleMatch[1], 10) of the first of the three forms that matches;
\* 0 when none does.
extractDecimalScale(fieldType) ==
    LET m1 == FirstExponent(fieldType)
        m2 == FirstBracketed(fieldType, "(", ")")
        m3 == FirstBracketed(fieldType, "<", ">")
        m  == IF m1 # <<>> THEN m1 ELSE IF m2 # <<>> THEN m2 ELSE m3
    IN  IF m = <<>> THEN 0 ELSE m[1] * ParseDigits(m[2])

\* Milliseconds of a day, a multiple of 2^10 = 1024: the quotient by it is
\* the quotient of the bits above the lowest ten by 84375.
DayMs == 86400000
DayShift == 10
DayUnit == 1024

\* 253402300800000 (the first millisecond of the year 10000)
\* = 15103954 * 2^24 + 2087936.
MaxTimestamp == FromHalves(15103954, 2087936)

\* The epoch days below which a number on a date column is read as days.
MaxEpochDays == 100000

\* The integer part of the magnitude of a number (scale 0..5), and whether
\* a fraction is left.
IntPart(v) == IF v.scale = 0 THEN v.mag ELSE Canon(DivMod(v.mag, TenTo(v.scale)).q)
HasFraction(v) == v.scale # 0 /\ DivMod(v.mag, TenTo(v.scale)).r # 0

\* value >= c, where the code has value > c.
GreaterOrEqual(v, c) == ~v.neg /\ ~Less(IntPart(v), c)

\* value > c and value < c, for a number and a natural c in bits.
Greater(v, c) ==
    ~v.neg /\ (Less(c, IntPart(v)) \/ (IntPart(v) = c /\ HasFraction(v)))
Smaller(v, c) == (v.neg /\ c # <<>>) \/ (~v.neg /\ Less(IntPart(v), c))

\* A Date: an instant as the day since 1970-01-01 and the millisecond of
\* that day, or the Invalid Date (valid = FALSE).
DateV(valid, day, ms) == [t |-> "Date", valid |-> valid, day |-> day, ms |-> ms]

\* The ISO strings: YYYY-MM-DDTHH:mm:ss.sssZ (the time of day kept as its
\* millisecond count) and YYYY-MM-DD.
IsoDateTimeV(c, ms) ==
    [t |-> "string", form |-> "datetime", y |-> c.y, m |-> c.m, d |-> c.d, ms |-> ms]
IsoDateV(c) == [t |-> "string", form |-> "date", y |-> c.y, m |-> c.m, d |-> c.d]

\* `<binary: ${value.length} bytes>`
BinaryV(len) == [t |-> "string", form |-> "binary", len |-> len]

\* A call that throws instead of returning.
ThrowV(name) == [t |-> "throw", name |-> name]

\* The calendar date of a day number (Date's YearFromTime, MonthFromTime,
\* DateFromTime), for days from 0000-03-01 on.
CivilFromDays(day) ==
    LET z   == day + 719468
        era == z \div 146097
        doe == z - era * 146097
        yoe == (doe - (doe \div 1460) + (doe \div 36524) - (doe \div 146096)) \div 365
        doy == doe - (365 * yoe + (yoe \div 4) - (yoe \div 100))
        mp  == (5 * doy + 2) \div 153
        d   == doy - ((153 * mp + 2) \div 5) + 1
        m   == IF mp < 10 THEN mp + 3 ELSE mp - 9
    IN  [y |-> yoe + era * 400 + (IF m <= 2 THEN 1 ELSE 0), m |-> m, d |-> d]

\* new Date(value).toISOString() for 86400000 < value < 253402300800000:
\* the instant value milliseconds after the epoch, fraction dropped.
EpochMsToIso(v) ==
    LET ms == IntPart(v)
        t  == DivMod(SubSeq(ms, DayShift + 1, Len(ms)), DayMs \div DayUnit)
    IN  IsoDateTimeV(CivilFromDays(ToInt(Canon(t.q))),
                     t.r * DayUnit + ToInt12(SubSeq(ms, 1, DayShift)))

\* new Date(value * 86400000).toISOString().split('T')[0] for
\* 0 < value < 100000: the day the product falls on.
EpochDaysToIso(v) == IsoDateV(CivilFromDays(ToInt(IntPart(v))))

\* Date.prototype.toISOString: a RangeError for the Invalid Date.
DateToIso(v) ==
    IF v.valid THEN IsoDateTimeV(CivilFromDays(v.day), v.ms) ELSE ThrowV("RangeError")

Uint8ArrayV(len) == [t |-> "Uint8Array", len |-> len]
\* A Uint32Array: its elements as 32-bit words.
Uint32ArrayV(words) == [t |-> "Uint32Array", words |-> words]
ArrayV(items) == [t |-> "Array", items |-> items]
\* A plain object: its own keys in Object.keys order, and their values.
ObjectV(keys, vals) == [t |-> "object", keys |-> keys, vals |-> vals]

\* i.toString() for the index i - 1.
IndexKeys == <<"0", "1", "2", "3", "4", "5", "6", "7", "8">>

\* /^\d+$/.test(k)
IsIndexKey(k) == \E i \in 1..Len(IndexKeys) : IndexKeys[i] = k

\* value[i] ?? value[i.toString()] ?? 0 on a plain object.
Lookup(value, key) ==
    LET P == {i \in 1..Len(value.keys) : value.keys[i] = key}
    IN  IF P = {} \/ value.vals[SetMin(P)].t \in {"null", "undefined"}
        THEN IntV(0) ELSE value.vals[SetMin(P)]

WordV(bits) == [t |-> "word", bits |-> bits]

\* word >>> 0: ToUint32 of a number (fraction dropped, modulo 2^32), 1 and
\* 0 for the booleans, 0 for what is no number; a BigInt has no >>>.
ToUint32(v) ==
    CASE v.t = "number" ->
            LET low == [i \in 1..WordBits |-> BitAt(IntPart(v), i)]
            IN  WordV(IF v.neg THEN [i \in 1..WordBits |-> BitAt(Negate(low), i)] ELSE low)
      [] v.t = "boolean" -> WordV(Word(IF v.b THEN 1 ELSE 0))
      [] v.t = "bigint" -> ThrowV("TypeError")
      [] OTHER -> WordV(Word(0))

\* The words decimalWordsToNumber reads from a plain object of n keys.
WordsOfObject(value, n) == [i \in 1..n |-> ToUint32(Lookup(value, IndexKeys[i]))]

Throws(vals) == {i \in 1..Len(vals) : vals[i].t = "throw"}

IsDateType(fieldType) ==
    fieldType # <<>> /\ (includes(toLowerCase(fieldType), "date")
                            \/ includes(toLowerCase(fieldType), "timestamp"))

IsDecimalType(fieldType) == includes(toLowerCase(fieldType), "decimal")

RECURSIVE convertValue(_, _)
convertValue(value, fieldType) ==
    CASE value.t \in {"null", "undefined"} -> NullV
      [] value.t = "bigint" -> DigitsV(value.neg, value.mag)
      [] value.t = "Date" -> DateToIso(value)
      [] value.t = "number" ->
            IF ~IsDateType(fieldType) THEN value
            ELSE IF Greater(value, BitsOf(DayMs)) /\ Smaller(value, MaxTimestamp)
                 THEN EpochMsToIso(value)
            ELSE IF Greater(value, <<>>) /\ Smaller(value, BitsOf(MaxEpochDays))
                 THEN EpochDaysToIso(value)
            ELSE value
      [] value.t = "Uint8Array" -> BinaryV(value.len)
      [] value.t = "Array" ->
            LET kids == [i \in 1..Len(value.items) |-> convertValue(value.items[i], <<>>)]
            IN  IF Throws(kids) # {} THEN kids[SetMin(Throws(kids))] ELSE ArrayV(kids)
      [] value.t = "Uint32Array" ->
            IF IsDecimalType(fieldType)
            THEN decimalWordsToNumber(value.words, Len(value.words),
                                      extractDecimalScale(fieldType))
            ELSE ObjectV(SubSeq(IndexKeys, 1, Len(value.words)),
                         [i \in 1..Len(value.words) |->
                             NumberV(FALSE, Canon(value.words[i]), 0)])
      [] value.t = "object" ->
            LET n == Len(value.keys)
                isDecimalBuffer ==
                    n > 0 /\ n <= 8 /\ \A i \in 1..n : IsIndexKey(value.keys[i])
                words == WordsOfObject(value, n)
                kids  == [i \in 1..n |-> convertValue(value.vals[i], <<>>)]
            IN  IF isDecimalBuffer /\ IsDecimalType(fieldType)
                THEN IF Throws(words) # {} THEN words[SetMin(Throws(words))]
                     ELSE decimalWordsToNumber([i \in 1..n |-> words[i].bits], n,
                                               extractDecimalScale(fieldType))
                ELSE IF Throws(kids) # {} THEN kids[SetMin(Throws(kids))]
                ELSE ObjectV(value.keys, kids)
      [] OTHER -> value

-----------------------------------------------------------------------------
(* The normalizer harness: convertValue applied to one cell of a column of  *)
(* a declared type, then to its own result.                                 *)

\* Type names that contain "date" or "timestamp", and type names that do not.
DateTypes ==
    {<<"Date", "32", "<", "DAY", ">">>, <<"Timestamp", "<", "MICROSECOND", ">">>,
     <<"DATE">>, <<"timestamp">>}

PlainTypes == {<<>>, <<"Int", "32">>, <<"Bool">>}

\* The decimal type names: the three forms extractDecimalScale reads, and
\* the bare name, which declares no scale.
Scales == {0, 2, 3}

ScaleDigits(s) == CASE s = 0 -> "0" [] s = 2 -> "2" [] s = 3 -> "3"

DecimalForms == {"exponent", "parens", "angles", "bare"}

DecimalType(form, s) ==
    CASE form = "exponent" -> <<"Decimal", "[", "15", "e", "+", ScaleDigits(s), "]">>
      [] form = "parens" -> <<"Decimal", "128", "(", "38", ",", " ", ScaleDigits(s), ")">>
      [] form = "angles" -> <<"DECIMAL", "<", "15", ",", ScaleDigits(s), ">">>
      [] form = "bare" -> <<"decimal">>

\* 2^k, 2^k + 1 and 2^k - 1 in bits.
Pow2(k) == Zeros(k) \o <<1>>
Pow2Plus1(k) == <<1>> \o Zeros(k - 1) \o <<1>>
Ones(k) == [i \in 1..k |-> 1]

\* Magnitudes of the integers a decimal column holds: small ones, the ones
\* around 2^53 (where a double stops holding every integer), and the ends
\* of the 128-bit and 256-bit ranges.
Magnitudes ==
    {<<>>, <<1>>, BitsOf(12345), Pow2(31), Ones(32), Ones(53), Pow2(53),
     Pow2Plus1(53), Pow2Plus1(64), Ones(127), Pow2(127), Ones(255)}

\* n fits in w words as a signed integer.
Representable(neg, mag, w) ==
    Len(mag) < WordBits * w \/ (neg /\ mag = Pow2(WordBits * w - 1))

\* The w words of the two's complement of the integer, least significant
\* word first: for a negative one all bits inverted, then one added.
Encode(neg, mag, w) ==
    LET N    == WordBits * w
        pad  == [i \in 1..N |-> BitAt(mag, i)]
        inv  == Inc([i \in 1..N |-> 1 - pad[i]])
        bits == IF neg THEN [i \in 1..N |-> inv[i]] ELSE pad
    IN  [k \in 1..w |-> [i \in 1..WordBits |-> bits[(k - 1) * WordBits + i]]]

\* The cell of a decimal column as the client library hands it over: a
\* Uint32Array, or a plain object with the words under the keys "0", "1", ...
DecimalCell(shape, words) ==
    IF shape = "Uint32Array" THEN Uint32ArrayV(words)
    ELSE ObjectV(SubSeq(IndexKeys, 1, Len(words)),
                 [i \in 1..Len(words) |-> NumberV(FALSE, Canon(words[i]), 0)])

\* The decimal cells of W words.
DecimalInputs(W) ==
    {[value |-> DecimalCell(shape, Encode(neg, mag, w)),
      type  |-> DecimalType(form, s),
      kind  |-> "decimal",
      n     |-> [neg |-> neg, mag |-> mag],
      w     |-> w,
      scale |-> IF form = "bare" THEN 0 ELSE s] :
        <<neg, mag, w, shape, form, s>> \in
            {x \in BOOLEAN \X Magnitudes \X W \X {"Uint32Array", "object"}
                     \X DecimalForms \X Scales :
                /\ Representable(x[1], x[2], x[3])
                /\ x[1] => x[2] # <<>>
                /\ x[5] = "bare" => x[6] = 0}}

\* A cell that is not a decimal: its value and the type of its column.
Cell(value, type) ==
    [value |-> value, type |-> type, kind |-> "cell",
     n |-> [neg |-> FALSE, mag |-> <<>>], w |-> 0, scale |-> 0]

\* Numbers around the bounds of the date heuristic: 0, 100000, 86400000 and
\* 253402300800000, with 0.5, 99999.9, 86400000.5 and -0.5 between them.
NumberCells ==
    {IntV(n) : n \in {-1, 0, 1, 19000, 99999, MaxEpochDays, MaxEpochDays + 1,
                      DayMs - 1, DayMs, DayMs + 1}}
      \cup {NumberV(FALSE, m, 0) :
                m \in {FromHalves(101327, 15034368), FromHalves(15103954, 2087935),
                       MaxTimestamp, Inc(MaxTimestamp)}}
      \cup {NumberV(FALSE, BitsOf(5), 1), NumberV(FALSE, BitsOf(999999), 1),
            NumberV(FALSE, BitsOf(864000005), 1), NumberV(TRUE, BitsOf(5), 1)}

\* What else a cell can be: null, undefined, a boolean, a string, a BigInt,
\* a Date (valid or not), bytes, a list, a struct, words of no decimal.
OtherCells ==
    {NullV, UndefinedV, BoolV(TRUE), TextV("x"), BigIntV(TRUE, Pow2Plus1(63)),
     DateV(TRUE, 19000, 123), DateV(FALSE, 0, 0), Uint8ArrayV(3),
     ArrayV(<<>>), ArrayV(<<IntV(19000), NullV, BigIntV(FALSE, BitsOf(7))>>),
     ArrayV(<<ArrayV(<<DateV(TRUE, 0, 0)>>), Uint32ArrayV(<<Word(5)>>)>>),
     ArrayV(<<TextV("x"), DateV(FALSE, 0, 0)>>),
     ObjectV(<<>>, <<>>),
     ObjectV(<<"a", "b">>, <<UndefinedV, Uint8ArrayV(2)>>),
     ObjectV(<<"a", "0">>, <<IntV(1), IntV(2)>>),
     ObjectV(<<"0">>, <<BigIntV(FALSE, <<1>>)>>),
     ObjectV(<<"1">>, <<IntV(7)>>),
     ObjectV(<<"0", "2">>, <<IntV(1), IntV(2)>>),
     ObjectV(<<"0", "1">>, <<IntV(5), TextV("x")>>),
     ObjectV(IndexKeys, [i \in 1..Len(IndexKeys) |-> IntV(i)]),
     ObjectV(<<"a">>, <<ObjectV(<<"b">>, <<BigIntV(FALSE, <<1>>)>>)>>),
     Uint32ArrayV(<<>>), Uint32ArrayV(<<Word(1), OnesWord>>)}

\* The cells that are no decimals, on columns of the types T.
CellInputs(T) ==
    {Cell(v, t) : <<v, t>> \in (NumberCells \cup OtherCells) \X T}

\* Decimal128 has 4 words, Decimal256 has 8.
WordCounts == {4, 8}

ColumnTypes == DateTypes \cup PlainTypes \cup {DecimalType("exponent", 2)}

InitNormalize ==
    /\ InitServer({1}, {"next"})
    /\ InitApp
    /\ sqlIn = <<>>
    /\ sqlOut = "?"
    /\ arg \in DecimalInputs(WordCounts) \cup CellInputs(ColumnTypes)
    /\ out = <<>>

\* convertValue(row[field.name], field.type.toString()) on the cell.
Normalize ==
    /\ out = <<>>
    /\ out' = <<convertValue(arg.value, arg.type)>>
    /\ UNCHANGED <<sqlIn, sqlOut, arg, serverVars, uiVars>>

\* convertValue on the value it returned, with the same type.
Renormalize ==
    /\ Len(out) = 1
    /\ out[1].t # "throw"
    /\ out' = Append(out, convertValue(out[1], arg.type))
    /\ UNCHANGED <<sqlIn, sqlOut, arg, serverVars, uiVars>>

NextNormalize == Normalize \/ Renormalize

\* The value normalizer on every cell and type of the inputs.
SpecNormalize == InitNormalize /\ [][NextNormalize]_vars

-----------------------------------------------------------------------------
(* The result of GizmoSQLService.execute: column descriptors from the       *)
(* schema of the Arrow table, and one object per row.                       *)

\* The keys and values of typeMap, in the order of the literal.
typeMap ==
    << <<<<"Utf", "8">>, "VARCHAR">>, <<<<"utf", "8">>, "VARCHAR">>,
       <<<<"LargeUtf", "8">>, "VARCHAR">>, <<<<"Int", "8">>, "TINYINT">>,
       <<<<"Int", "16">>, "SMALLINT">>, <<<<"Int", "32">>, "INTEGER">>,
       <<<<"Int", "64">>, "BIGINT">>, <<<<"UInt", "8">>, "UTINYINT">>,
       <<<<"UInt", "16">>, "USMALLINT">>, <<<<"UInt", "32">>, "UINTEGER">>,
       <<<<"UInt", "64">>, "UBIGINT">>, <<<<"Float", "16">>, "FLOAT">>,
       <<<<"Float", "32">>, "FLOAT">>, <<<<"Float", "64">>, "DOUBLE">>,
       <<<<"Boolean">>, "BOOLEAN">>, <<<<"Bool">>, "BOOLEAN">>,
       <<<<"Date", "32">>, "DATE">>, <<<<"Date", "64">>, "DATE">>,
       <<<<"Time", "32">>, "TIME">>, <<<<"Time", "64">>, "TIME">>,
       <<<<"Timestamp">>, "TIMESTAMP">>, <<<<"Binary">>, "BLOB">>,
       <<<<"LargeBinary">>, "BLOB">>, <<<<"FixedSizeBinary">>, "BLOB">>,
       <<<<"Decimal">>, "DECIMAL">>, <<<<"Decimal", "128">>, "DECIMAL">>,
       <<<<"Decimal", "256">>, "DECIMAL">> >>

\* type.startsWith(key), for a key that ends where a unit of the type ends.
startsWith(type, key) ==
    Len(key) <= Len(type) /\ SubSeq(type, 1, Len(key)) = key

\* The SQL name of an Arrow type name: the exact entry of typeMap, else the
\* first entry whose key the name starts with, else the name itself.
normalizeTypeName(type) ==
    LET exact  == {i \in 1..Len(typeMap) : typeMap[i][1] = type}
        prefix == {i \in 1..Len(typeMap) : startsWith(type, typeMap[i][1])}
    IN  IF exact # {} THEN <<typeMap[SetMin(exact)][2]>>
        ELSE IF prefix # {} THEN <<typeMap[SetMin(prefix)][2]>>
        ELSE type

\* table.schema.fields.map(field => ({name, type})).
ResultColumns(fields) ==
    [i \in 1..Len(fields) |->
        [name |-> fields[i].name, type |-> normalizeTypeName(fields[i].type)]]

\* row[field.name]: the cell of the first column of that name.
CellByName(fields, row, name) ==
    row[SetMin({i \in 1..Len(fields) : fields[i].name = name})]

\* obj[key] = value: a new key goes to the end, a key the object has keeps
\* its place and takes the value.
Put(obj, key, value) ==
    LET P == {i \in 1..Len(obj.keys) : obj.keys[i] = key}
    IN  IF P = {} THEN ObjectV(Append(obj.keys, key), Append(obj.vals, value))
        ELSE ObjectV(obj.keys, [obj.vals EXCEPT ![SetMin(P)] = value])

\* One pass of the loop: the entry of the field is put into the object,
\* unless a conversion has thrown.
PutCell(obj, key, cell) ==
    IF obj.t = "throw" THEN obj
    ELSE IF cell.t = "throw" THEN cell
    ELSE Put(obj, key, cell)

\* The object of one row after the first k fields of the loop.
RECURSIVE RowObject(_, _, _)
RowObject(fields, row, k) ==
    IF k = 0 THEN ObjectV(<<>>, <<>>)
    ELSE PutCell(RowObject(fields, row, k - 1), fields[k].name,
                 convertValue(CellByName(fields, row, fields[k].name), fields[k].type))

\* What execute returns once the rows are built, or the throw of a
\* conversion.
ResultOf(fields, rows) ==
    IF Throws(rows) # {} THEN rows[SetMin(Throws(rows))]
    ELSE [t |-> "result", columns |-> ResultColumns(fields),
          rows |-> rows, rowCount |-> Len(rows)]

\* What execute returns for a table.
ExecuteResult(table) ==
    ResultOf(table.fields,
             [i \in 1..Len(table.rows) |->
                 RowObject(table.fields, table.rows[i], Len(table.fields))])

\* Most columns of a table of the inputs.
MaxFields == 3

\* Tables: up to MaxFields columns named a or b (two columns can carry the
\* same name, as in SELECT 1 AS a, 2 AS a), no row or one row of cells.
FieldNames == {"a", "b"}

FieldTypes == {<<"Int", "32">>, <<"Date", "32", "<", "DAY", ">">>}

RowCells == {NullV, IntV(1)}

Fields == [name : FieldNames, type : FieldTypes]

\* No row, or one row of n cells.
RowsOf(n) == {<<>>} \cup {<<c>> : c \in [1..n -> RowCells]}

InitRows ==
    /\ InitServer({1}, {"next"})
    /\ InitApp
    /\ sqlIn = <<>>
    /\ sqlOut = "?"
    /\ \E n \in 0..MaxFields :
          \E f \in [1..n -> Fields], r \in RowsOf(n) : arg = [fields |-> f, rows |-> r]
    /\ out = <<>>

\* service.execute(sql), once client.execute(sql) has returned the table.
Execute ==
    /\ out = <<>>
    /\ out' = <<ExecuteResult(arg)>>
    /\ UNCHANGED <<sqlIn, sqlOut, arg, serverVars, uiVars>>

NextRows == Execute

\* The result of execute for every table of the inputs.
SpecRows == InitRows /\ [][NextRows]_vars

-----------------------------------------------------------------------------
(* Error reporting: what the catch blocks put in the `error` field. *)

\* Message texts of the errors the client library raises.
ErrorTexts == {"a", "b", "c"}

\* A value the client library throws: an Error (isError) with its message,
\* or some other value, whose `message` stands for String(value); `details`
\* and `cause` are the gRPC details and the message of the cause, "" when
\* the value has none.
Thrown ==
    [isError : BOOLEAN, message : ErrorTexts,
     details : ErrorTexts \cup {""}, cause : ErrorTexts \cup {""}]

\* The catch of GizmoSQLService.connect: an Error is thrown on as it is,
\* anything else as new Error(String(error)).
connectRethrow(e) ==
    IF e.isError THEN e
    ELSE [isError |-> TRUE, message |-> e.message, details |-> "", cause |-> ""]

\* The catch of the connect handler.
connectErrorMessage(e) ==
    IF ~e.isError THEN "Connection failed"
    ELSE IF e.details # "" THEN e.details
    ELSE IF e.cause # "" THEN e.cause
    ELSE e.message

\* The catch of the query handler.
queryErrorMessage(e) ==
    IF e.isError THEN e.message ELSE "Query execution failed"

InitErrors ==
    /\ InitServer({1}, {"next"})
    /\ InitApp
    /\ sqlIn = <<>>
    /\ sqlOut = "?"
    /\ arg \in Thrown
    /\ out = <<>>

\* client.getCatalogs() rejects with arg during service.connect().
ConnectThrows ==
    /\ out = <<>>
    /\ out' = <<[op |-> "connect", error |-> connectErrorMessage(connectRethrow(arg))]>>
    /\ UNCHANGED <<sqlIn, sqlOut, arg, serverVars, uiVars>>

\* client.execute(sql) rejects with arg during service.execute().
QueryThrows ==
    /\ out = <<>>
    /\ out' = <<[op |-> "query", error |-> queryErrorMessage(arg)]>>
    /\ UNCHANGED <<sqlIn, sqlOut, arg, serverVars, uiVars>>

NextErrors == ConnectThrows \/ QueryThrows

\* The error string of a 500 response, for every error of the client library.
SpecErrors == InitErrors /\ [][NextErrors]_vars

-----------------------------------------------------------------------------
(* The classifier harness. *)

Texts(n) == UNION {[1..k -> Alphabet] : k \in 0..n}

InitClassify ==
    /\ InitServer({1}, {"next"})
    /\ InitApp
    /\ sqlIn \in Texts(MaxLen)
    /\ sqlOut = "?"
    /\ arg = <<>>
    /\ out = <<>>

\* The classifier applied to the text.
Classify ==
    /\ sqlOut = "?"
    /\ sqlOut' = IF canPaginate(sqlIn) THEN "paginate" ELSE "direct"
    /\ UNCHANGED <<sqlIn, arg, out, serverVars, uiVars>>

NextClassify == Classify

\* canPaginate on every text up to MaxLen units.
SpecClassify == InitClassify /\ [][NextClassify]_vars

-----------------------------------------------------------------------------
(* The browser application (context/AppContext.tsx): the reducer over      *)
(* AppState, and the operations of the provider.  A callback reads the     *)
(* state of the render that created it: an operation started by a user     *)
(* event reads the current state, a callback that runs later (a timer, the *)
(* code after an await) reads the state it was created with.  The save     *)
(* effect runs after every change of the state.                            *)

\* Ids crypto.randomUUID() hands out, and requests numbered in the order sent.
MaxIds == 6

State == [servers |-> servers, notebooks |-> notebooks,
          activeNotebookId |-> activeNotebookId]

\* The reducer returned st: the state is replaced and the save effect runs.
Commit(st) ==
    /\ servers' = st.servers
    /\ notebooks' = st.notebooks
    /\ activeNotebookId' = st.activeNotebookId
    /\ storage' = Saved(st)

\* array.filter(x => x.id !== id)
WithoutId(seq, id) == SelectSeq(seq, LAMBDA x : x.id # id)

\* array.find(x => x.id === id), 0 positions when there is none.
IndexOfId(seq, id) ==
    LET P == {i \in 1..Len(seq) : seq[i].id = id}
    IN  IF P = {} THEN 0 ELSE SetMin(P)

HasId(seq, id) == IndexOfId(seq, id) # 0

\* appReducer, ADD_SERVER and REMOVE_SERVER.
AddServer(st, server) == [st EXCEPT !.servers = Append(@, server)]

RemoveServer(st, serverId) == [st EXCEPT !.servers = WithoutId(@, serverId)]

\* appReducer, ADD_NOTEBOOK.
AddNotebook(st, notebook) ==
    [st EXCEPT !.notebooks = Append(@, notebook),
               !.activeNotebookId = IF @ = 0 THEN notebook.id ELSE @]

\* A REMOVE_NOTEBOOK that leaves activeNotebookId as it is.
RemoveNotebookKeepActive(st, notebookId) ==
    [st EXCEPT !.notebooks = WithoutId(@, notebookId)]

\* appReducer, REMOVE_NOTEBOOK.
RemoveNotebook(st, notebookId) ==
    LET newNotebooks == WithoutId(st.notebooks, notebookId)
    IN  [st EXCEPT !.notebooks = newNotebooks,
                   !.activeNotebookId =
                       IF @ # notebookId THEN @
                       ELSE IF Len(newNotebooks) > 0 THEN newNotebooks[1].id ELSE 0]

\* appReducer, SET_ACTIVE_NOTEBOOK.
SetActive(st, notebookId) == [st EXCEPT !.activeNotebookId = notebookId]

\* appReducer, UPDATE_NOTEBOOK with updates {name}.
UpdateNotebookName(st, notebookId, name) ==
    [st EXCEPT !.notebooks =
        [i \in 1..Len(@) |-> IF @[i].id = notebookId THEN [@[i] EXCEPT !.name = name]
                                                     ELSE @[i]]]

\* { ...c, ...updates }
Merge(c, updates) ==
    [f \in DOMAIN c |-> IF f \in DOMAIN updates THEN updates[f] ELSE c[f]]

\* appReducer, UPDATE_CELL.
UpdateCell(st, notebookId, cellId, updates) ==
    [st EXCEPT !.notebooks =
        [i \in 1..Len(@) |->
            IF @[i].id # notebookId THEN @[i]
            ELSE [@[i] EXCEPT !.cells =
                    [k \in 1..Len(@) |-> IF @[k].id = cellId THEN Merge(@[k], updates)
                                                           ELSE @[k]]]]]

\* result: null
NoResult == [request |-> 0, page |-> 0, originalSql |-> "", hasMore |-> FALSE]

\* A cell as createNotebook and addCell make it.
NewCell(id, serverId) ==
    [id |-> id, serverId |-> serverId, sql |-> "", result |-> NoResult,
     isExecuting |-> FALSE, error |-> ""]

\* createNotebook(): a notebook named "Notebook n" with one cell on the first
\* server, added and made active.
CreateNotebook ==
    /\ nextId + 1 <= MaxIds
    /\ LET cell == NewCell(nextId + 1, IF Len(servers) > 0 THEN servers[1].id ELSE 0)
           notebook == [id |-> nextId, name |-> <<"Notebook", Len(notebooks) + 1>>,
                        cells |-> <<cell>>]
       IN  Commit(SetActive(AddNotebook(State, notebook), notebook.id))
    /\ nextId' = nextId + 2
    /\ UNCHANGED <<apiSessionId, calls, timers, showServerSelect>>
    /\ UNCHANGED <<serverVars, sqlIn, sqlOut, arg, out>>

\* NotebookExplorer.handleDelete on a notebook of the list.
DeleteNotebook(notebookId) ==
    /\ HasId(notebooks, notebookId)
    /\ Commit(IF Len(notebooks) > 1 THEN RemoveNotebook(State, notebookId) ELSE State)
    /\ UNCHANGED <<apiSessionId, calls, timers, showServerSelect, nextId>>
    /\ UNCHANGED <<serverVars, sqlIn, sqlOut, arg, out>>

\* NotebookExplorer.handleFinishRename with the text typed (trimmed).
RenameNotebook(notebookId, editName) ==
    /\ HasId(notebooks, notebookId)
    /\ Commit(IF editName # "" THEN UpdateNotebookName(State, notebookId, <<editName>>)
                               ELSE State)
    /\ UNCHANGED <<apiSessionId, calls, timers, showServerSelect, nextId>>
    /\ UNCHANGED <<serverVars, sqlIn, sqlOut, arg, out>>

\* A click on a notebook of the list: setActiveNotebook.
SelectNotebook(notebookId) ==
    /\ HasId(notebooks, notebookId)
    /\ Commit(SetActive(State, notebookId))
    /\ UNCHANGED <<apiSessionId, calls, timers, showServerSelect, nextId>>
    /\ UNCHANGED <<serverVars, sqlIn, sqlOut, arg, out>>

InitNotebooks ==
    /\ InitServer({1}, {"next"})
    /\ InitApp
    /\ sqlIn = <<>>
    /\ sqlOut = "?"
    /\ arg = <<>>
    /\ out = <<>>

NextNotebooks ==
    \/ CreateNotebook
    \/ \E id \in 1..MaxIds : DeleteNotebook(id)
    \/ \E id \in 1..MaxIds, editName \in {"", "a", "b"} : RenameNotebook(id, editName)
    \/ \E id \in 1..MaxIds : SelectNotebook(id)

\* The notebook list under the actions of the notebook explorer.
SpecNotebooks == InitNotebooks /\ [][NextNotebooks]_vars

-----------------------------------------------------------------------------
(* Cells and servers of the browser application: connectServer,            *)
(* disconnectServer, executeCell, fetchCellPage and the listings of the     *)
(* provider, Cell.handleExecute, and the requests of the shared ApiClient.  *)

\* Servers connected at once, and the last page a cell is paged to.
MaxServers == 2
MaxPage == 2
\* setTimeout callbacks waiting at once.
MaxTimers == 1

NoCell == NewCell(0, 0)
NoServer == [id |-> 0, sessionId |-> 0]

\* state.notebooks.find(...)?.cells.find(...)
CellOf(st, notebookId, cellId) ==
    LET i == IndexOfId(st.notebooks, notebookId)
        k == IF i = 0 THEN 0 ELSE IndexOfId(st.notebooks[i].cells, cellId)
    IN  IF k = 0 THEN NoCell ELSE st.notebooks[i].cells[k]

\* state.servers.find(s => s.id === serverId)
ServerOf(st, serverId) ==
    IF HasId(st.servers, serverId) THEN st.servers[IndexOfId(st.servers, serverId)]
    ELSE NoServer

\* !sql.trim()
BlankSql(sql) == sql \in {"", " "}

\* A session id that replaces the client's only when it holds none.
KeepSessionId(current, id) == IF current # 0 THEN current ELSE id

\* api.setSessionId(id): the id the client holds afterwards.
SetSessionId(current, id) == id

\* A request of the ApiClient: the session id it carries (request reads
\* this.sessionId before its first await), the server it was issued for
\* (0 for connect), and what the code after the await still holds.
Call(op, n, carried, serverId, notebookId, cellId, sql, page, snap) ==
    [op |-> op, n |-> n, carried |-> carried, serverId |-> serverId,
     notebookId |-> notebookId, cellId |-> cellId, sql |-> sql, page |-> page,
     snap |-> snap]

\* The operation sends nothing: the dispatches made so far are committed.
Nothing(cur) ==
    /\ Commit(cur)
    /\ UNCHANGED <<apiSessionId, calls, nextId>>

\* api.query of a cell on the server: the cell is marked executing, the
\* client takes the session id of the server, the request leaves.
SendQuery(cur, server, notebookId, cellId, sql, page) ==
    /\ nextId <= MaxIds
    /\ Commit(UpdateCell(cur, notebookId, cellId, [isExecuting |-> TRUE, error |-> ""]))
    /\ apiSessionId' = SetSessionId(apiSessionId, server.sessionId)
    /\ calls' = calls \cup
          {Call("query", nextId, SetSessionId(apiSessionId, server.sessionId),
                server.id, notebookId, cellId, sql, page, <<>>)}
    /\ nextId' = nextId + 1

\* executeCell(notebookId, cellId) of a render with state st, while the
\* current state is cur.
executeCell(st, cur, notebookId, cellId) ==
    LET cell == CellOf(st, notebookId, cellId)
        server == ServerOf(st, cell.serverId)
    IN  IF cell.id = 0 \/ cell.serverId = 0 \/ BlankSql(cell.sql) \/ server.id = 0
        THEN Nothing(cur)
        ELSE SendQuery(cur, server, notebookId, cellId, cell.sql, 1)

\* fetchCellPage(notebookId, cellId, page) of a render with state st.
fetchCellPage(st, cur, notebookId, cellId, page) ==
    LET cell == CellOf(st, notebookId, cellId)
        server == ServerOf(st, cell.serverId)
    IN  IF cell.id = 0 \/ cell.serverId = 0 \/ cell.result = NoResult \/ server.id = 0
        THEN Nothing(cur)
        ELSE SendQuery(cur, server, notebookId, cellId, cell.result.originalSql, page)

\* What executeCell reads of the state of its render: the servers, and of
\* every cell its id, serverId and sql.
View(st) ==
    [servers |-> st.servers,
     notebooks |->
        [i \in 1..Len(st.notebooks) |->
            [id |-> st.notebooks[i].id,
             cells |-> [k \in 1..Len(st.notebooks[i].cells) |->
                          [id |-> st.notebooks[i].cells[k].id,
                           serverId |-> st.notebooks[i].cells[k].serverId,
                           sql |-> st.notebooks[i].cells[k].sql]]]]]

\* Cell.handleExecute of the current render (Run button, keyboard shortcut,
\* editor action).  With no usable server on the cell: a stale id is
\* cleared; with one server connected the cell is given that server and
\* executeCell of this render is scheduled; with several the selection
\* modal opens; with none a connection is requested.
handleExecute(notebookId, cellId) ==
    LET cell == CellOf(State, notebookId, cellId)
        serverExists == cell.serverId # 0 /\ HasId(servers, cell.serverId)
        cleared == IF cell.serverId # 0 /\ ~serverExists
                   THEN UpdateCell(State, notebookId, cellId, [serverId |-> 0])
                   ELSE State
    IN  IF cell.serverId # 0 /\ serverExists
        THEN /\ executeCell(State, State, notebookId, cellId)
             /\ UNCHANGED <<timers, showServerSelect>>
        ELSE IF Len(servers) = 1
        THEN /\ Cardinality(timers) < MaxTimers
             /\ Commit(UpdateCell(cleared, notebookId, cellId, [serverId |-> servers[1].id]))
             /\ timers' = timers \cup
                   {[notebookId |-> notebookId, cellId |-> cellId, snap |-> View(State)]}
             /\ UNCHANGED <<apiSessionId, calls, nextId, showServerSelect>>
        ELSE /\ Commit(cleared)
             /\ showServerSelect' = IF Len(servers) > 1 THEN showServerSelect \cup {cellId}
                                                        ELSE showServerSelect
             /\ UNCHANGED <<apiSessionId, calls, nextId, timers>>

\* const canExecute = !!cell.sql.trim() && !cell.isExecuting
canExecute(cell) == ~BlankSql(cell.sql) /\ ~cell.isExecuting

\* A click on the Run button, which is disabled unless canExecute.
RunButton(notebookId, cellId) ==
    /\ CellOf(State, notebookId, cellId).id # 0
    /\ canExecute(CellOf(State, notebookId, cellId))
    /\ handleExecute(notebookId, cellId)
    /\ UNCHANGED <<serverVars, sqlIn, sqlOut, arg, out>>

\* Ctrl/Cmd/Shift+Enter in the cell (the keydown listener of the container
\* and the two editor actions): executeRef.current().
Shortcut(notebookId, cellId) ==
    /\ CellOf(State, notebookId, cellId).id # 0
    /\ handleExecute(notebookId, cellId)
    /\ UNCHANGED <<serverVars, sqlIn, sqlOut, arg, out>>

\* The callback of setTimeout(() => executeCell(notebookId, cell.id), 0)
\* runs: executeCell of the render that scheduled it.
TimerFires(t) ==
    /\ t \in timers
    /\ timers' = timers \ {t}
    /\ executeCell(t.snap, State, t.notebookId, t.cellId)
    /\ UNCHANGED showServerSelect
    /\ UNCHANGED <<serverVars, sqlIn, sqlOut, arg, out>>

\* Cell.handleServerSelect on a server of the modal, and the effect that
\* follows the render: executeCell of the new render.
ServerSelected(notebookId, cellId, serverId) ==
    /\ cellId \in showServerSelect
    /\ HasId(servers, serverId)
    /\ showServerSelect' = showServerSelect \ {cellId}
    /\ LET cur == UpdateCell(State, notebookId, cellId, [serverId |-> serverId])
       IN  executeCell(cur, cur, notebookId, cellId)
    /\ UNCHANGED timers
    /\ UNCHANGED <<serverVars, sqlIn, sqlOut, arg, out>>

\* The server <select> of the cell: updateCellServer(value || null).
ChooseServer(notebookId, cellId, serverId) ==
    /\ CellOf(State, notebookId, cellId).id # 0
    /\ serverId = 0 \/ HasId(servers, serverId)
    /\ Commit(UpdateCell(State, notebookId, cellId, [serverId |-> serverId]))
    /\ UNCHANGED <<apiSessionId, calls, timers, showServerSelect, nextId>>
    /\ UNCHANGED <<serverVars, sqlIn, sqlOut, arg, out>>

\* Typing in the editor of the cell: updateCellSql(value || '').
EditSql(notebookId, cellId, sql) ==
    /\ CellOf(State, notebookId, cellId).id # 0
    /\ CellOf(State, notebookId, cellId).sql # sql
    /\ Commit(UpdateCell(State, notebookId, cellId, [sql |-> sql]))
    /\ UNCHANGED <<apiSessionId, calls, timers, showServerSelect, nextId>>
    /\ UNCHANGED <<serverVars, sqlIn, sqlOut, arg, out>>

\* The Previous and Next buttons under a result, disabled while loading:
\* fetchCellPage(notebookId, cell.id, page).
PageButton(notebookId, cellId, page) ==
    LET cell == CellOf(State, notebookId, cellId)
    IN  /\ cell.id # 0
        /\ cell.result # NoResult /\ cell.error = ""
        /\ ~cell.isExecuting
        /\ \/ page = cell.result.page - 1 /\ cell.result.page > 1
           \/ page = cell.result.page + 1 /\ cell.result.hasMore /\ page <= MaxPage
        /\ fetchCellPage(State, State, notebookId, cellId, page)
        /\ UNCHANGED <<timers, showServerSelect>>
        /\ UNCHANGED <<serverVars, sqlIn, sqlOut, arg, out>>

\* The response of a query arrives: the code after `await api.query` stores
\* the result (of the statement and page it asked for) or the error.
QueryAnswered(c, ok, hasMore) ==
    /\ c \in calls
    /\ c.op = "query"
    /\ calls' = calls \ {c}
    /\ Commit(UpdateCell(State, c.notebookId, c.cellId,
                IF ok THEN [result |-> [request |-> c.n, page |-> c.page,
                                        originalSql |-> c.sql, hasMore |-> hasMore],
                            isExecuting |-> FALSE]
                      ELSE [error |-> "failed", isExecuting |-> FALSE]))
    /\ UNCHANGED <<apiSessionId, timers, showServerSelect, nextId>>
    /\ UNCHANGED <<serverVars, sqlIn, sqlOut, arg, out>>

\* What the code after `await api.connect(config)` reads of the state of its
\* render: whether there was no server, and the cells without server.
Unassigned(st) ==
    [first |-> Len(st.servers) = 0,
     cells |-> UNION {{<<st.notebooks[i].id, st.notebooks[i].cells[k].id>> :
                          k \in {h \in 1..Len(st.notebooks[i].cells) :
                                    st.notebooks[i].cells[h].serverId = 0}} :
                      i \in 1..Len(st.notebooks)}]

\* connectServer up to `await api.connect(config)`: the request leaves with
\* the session id the client holds at that moment.  The dialog allows one
\* connect at a time; at most limit servers are connected.
ConnectServerStart(limit) ==
    /\ \A c \in calls : c.op # "connect"
    /\ Len(servers) < limit
    /\ nextId <= MaxIds
    /\ calls' = calls \cup {Call("connect", 0, apiSessionId, 0, 0, 0, "", 0, Unassigned(State))}
    /\ UNCHANGED <<servers, notebooks, activeNotebookId, storage, apiSessionId,
                   timers, showServerSelect, nextId>>
    /\ UNCHANGED <<serverVars, sqlIn, sqlOut, arg, out>>

\* response.sessionId of the n-th id made: the backend's session ids are
\* written as negative numbers, the ids made in the browser as positive
\* ones, and 0 is null.
SessionIdOf(n) == 0 - n

\* The cells of the set are given the server.
AssignServer(cur, cells, serverId) ==
    [cur EXCEPT !.notebooks =
        [i \in 1..Len(@) |->
            [@[i] EXCEPT !.cells =
                [k \in 1..Len(@) |->
                    IF <<cur.notebooks[i].id, @[k].id>> \in cells
                    THEN [@[k] EXCEPT !.serverId = serverId] ELSE @[k]]]]]

\* The connect request is answered.  On success the client takes the new
\* session id and the server is added; when the state the call started in
\* had no server, its cells without server are given the new one.
ConnectServerFinish(c, ok) ==
    /\ c \in calls
    /\ c.op = "connect"
    /\ calls' = calls \ {c}
    /\ IF ok
       THEN /\ apiSessionId' = SessionIdOf(nextId)
            /\ nextId' = nextId + 1
            /\ LET server == [id |-> nextId, sessionId |-> SessionIdOf(nextId)]
                   added  == AddServer(State, server)
               IN  Commit(IF c.snap.first
                          THEN AssignServer(added, c.snap.cells, server.id) ELSE added)
       ELSE UNCHANGED <<servers, notebooks, activeNotebookId, storage,
                        apiSessionId, nextId>>
    /\ UNCHANGED <<timers, showServerSelect>>
    /\ UNCHANGED <<serverVars, sqlIn, sqlOut, arg, out>>

\* disconnectServer of a listed server up to `await api.disconnect()`.  A
\* request equal to one in flight is not told apart from it.
DisconnectServerStart(serverId) ==
    /\ HasId(servers, serverId)
    /\ LET sid == SetSessionId(apiSessionId, ServerOf(State, serverId).sessionId)
           c   == Call("disconnect", 0, sid, serverId, 0, 0, "", 0, <<>>)
       IN  /\ c \notin calls
           /\ apiSessionId' = sid
           /\ calls' = calls \cup {c}
    /\ UNCHANGED <<servers, notebooks, activeNotebookId, storage, timers,
                   showServerSelect, nextId>>
    /\ UNCHANGED <<serverVars, sqlIn, sqlOut, arg, out>>

\* The disconnect request is answered: on success the client drops its
\* session id and the server leaves the list.
DisconnectServerFinish(c, ok) ==
    /\ c \in calls
    /\ c.op = "disconnect"
    /\ calls' = calls \ {c}
    /\ IF ok
       THEN /\ apiSessionId' = 0
            /\ Commit(RemoveServer(State, c.serverId))
       ELSE UNCHANGED <<servers, notebooks, activeNotebookId, storage, apiSessionId>>
    /\ UNCHANGED <<timers, showServerSelect, nextId>>
    /\ UNCHANGED <<serverVars, sqlIn, sqlOut, arg, out>>

ListKinds == {"catalogs", "schemas", "tables"}

\* getServerCatalogs / getServerSchemas / getServerTables of a listed
\* server, up to the await inside the ApiClient.
ListStart(kind, serverId) ==
    /\ HasId(servers, serverId)
    /\ LET sid == SetSessionId(apiSessionId, ServerOf(State, serverId).sessionId)
           c   == Call(kind, 0, sid, serverId, 0, 0, "", 0, <<>>)
       IN  /\ c \notin calls
           /\ apiSessionId' = sid
           /\ calls' = calls \cup {c}
    /\ UNCHANGED <<servers, notebooks, activeNotebookId, storage, timers,
                   showServerSelect, nextId>>
    /\ UNCHANGED <<serverVars, sqlIn, sqlOut, arg, out>>

\* The listing is answered (the tree of the explorer is no part of AppState).
ListFinish(c) ==
    /\ c \in calls
    /\ c.op \in ListKinds
    /\ calls' = calls \ {c}
    /\ UNCHANGED <<servers, notebooks, activeNotebookId, storage, apiSessionId,
                   timers, showServerSelect, nextId>>
    /\ UNCHANGED <<serverVars, sqlIn, sqlOut, arg, out>>

\* The page is loaded again: requests and timers of the old page are gone,
\* the new ApiClient has no session, and the load effect restores the saved
\* state with servers: [].
Reload ==
    /\ Commit([servers |-> <<>>, notebooks |-> storage.notebooks,
               activeNotebookId |-> storage.activeNotebookId])
    /\ apiSessionId' = 0
    /\ calls' = {}
    /\ timers' = {}
    /\ showServerSelect' = {}
    /\ UNCHANGED nextId
    /\ UNCHANGED <<serverVars, sqlIn, sqlOut, arg, out>>

\* The SQL texts typed into a cell (a new cell holds the empty text).
SqlTexts == {" ", "q1"}

InitCells ==
    /\ InitServer({1}, {"next"})
    /\ InitApp
    /\ sqlIn = <<>>
    /\ sqlOut = "?"
    /\ arg = <<>>
    /\ out = <<>>

\* The cells on the page, as <<notebook id, cell id>>, and the servers listed.
CellsShown ==
    UNION {{<<notebooks[i].id, notebooks[i].cells[k].id>> :
                k \in 1..Len(notebooks[i].cells)} : i \in 1..Len(notebooks)}

ServersShown == {servers[i].id : i \in 1..Len(servers)}

NextCells ==
    \/ notebooks = <<>> /\ CreateNotebook
    \/ ConnectServerStart(1)
    \/ \E c \in calls, ok \in BOOLEAN : ConnectServerFinish(c, ok)
    \/ \E id \in ServersShown : DisconnectServerStart(id)
    \/ \E c \in calls, ok \in BOOLEAN : DisconnectServerFinish(c, ok)
    \/ \E x \in CellsShown : RunButton(x[1], x[2])
    \/ \E x \in CellsShown : Shortcut(x[1], x[2])
    \/ \E t \in timers : TimerFires(t)
    \/ \E x \in CellsShown, s \in ServersShown \cup {0} : ChooseServer(x[1], x[2], s)
    \/ \E x \in CellsShown, sql \in SqlTexts : EditSql(x[1], x[2], sql)
    \/ \E x \in CellsShown, page \in 1..MaxPage : PageButton(x[1], x[2], page)
    \/ \E c \in calls, ok, hasMore \in BOOLEAN : QueryAnswered(c, ok, hasMore)
    \/ Reload

\* One notebook with its cell, one server connected at a time, and the
\* requests of the browser.
SpecCells == InitCells /\ [][NextCells]_vars

\* The requests in flight at one time in SpecApi.
MaxCalls == 2

\* Another request may start.
MayCall == Cardinality(calls) < MaxCalls

NextApi ==
    \/ notebooks = <<>> /\ CreateNotebook
    \/ notebooks # <<>> /\ MayCall /\ ConnectServerStart(MaxServers)
    \/ \E c \in calls : ConnectServerFinish(c, TRUE)
    \/ MayCall /\ \E id \in ServersShown : DisconnectServerStart(id)
    \/ \E c \in calls, ok \in BOOLEAN : DisconnectServerFinish(c, ok)
    \/ MayCall /\ \E x \in CellsShown : Shortcut(x[1], x[2])
    \/ MayCall /\ \E t \in timers : TimerFires(t)
    \/ MayCall /\ \E x \in CellsShown, s \in ServersShown : ServerSelected(x[1], x[2], s)
    \/ \E x \in CellsShown, s \in ServersShown : ChooseServer(x[1], x[2], s)
    \/ \E x \in CellsShown : EditSql(x[1], x[2], "q1")
    \/ MayCall /\ \E x \in CellsShown, page \in 1..MaxPage : PageButton(x[1], x[2], page)
    \/ \E c \in calls, hasMore \in BOOLEAN : QueryAnswered(c, TRUE, hasMore)
    \/ MayCall /\ \E kind \in ListKinds, id \in ServersShown : ListStart(kind, id)
    \/ \E c \in calls : ListFinish(c)

\* The requests of the one ApiClient with several servers connected (the
\* notebook is made before the first server is connected).
SpecApi == InitCells /\ [][NextApi]_vars

-----------------------------------------------------------------------------
(* Properties.  A step answers a request when it sets `last`; it answers   *)
(* at once (before any await) when no slot changes position.               *)

Range(f) == {f[x] : x \in DOMAIN f}

Answers == last = NoResponse /\ last' # NoResponse

AnswersAtOnce == Answers /\ pc' = pc

LookupKinds == MetaKinds \cup {"query"}

\* A query request that carries the sql it is to run (one that does not is
\* refused with 400 before the lookup).
CarriesSql(rq) == rq.kind = "query" => (rq.hasSql /\ rq.sql # <<>>)

C2_NoLostUpdate ==
    (\A r \in Slots : pc[r] = "idle") =>
        /\ DOMAIN connections = connected \ disconnected
        /\ \A s \in DOMAIN connections : connections[s] = owner[s]

\* C2 witness: all requests have finished after a connect and a disconnect
\* settled while both were in flight; one session is left of two connected.
C2_Witness ==
    /\ \A r \in Slots : pc[r] = "idle"
    /\ raced
    /\ Cardinality(connected) >= 2
    /\ disconnected # {}
    /\ connections # <<>>

\* C3: a connect request that fails (400 for a missing host, 500 when the
\* round-trip throws) changes the session map in none of its steps, and the
\* handle it created is registered under no session id.
C3_FailedConnectInsertsNothing ==
    /\ [][ /\ \A r \in Slots :
                (pc[r] = "idle" /\ pc'[r] = "connecting") => connections' = connections
           /\ (Answers /\ last'.req.kind = "connect" /\ last'.status # 200) =>
                /\ connections' = connections
                /\ last'.status = (IF last'.req.host THEN 500 ELSE 400) ]_vars
    /\ []((last.req.kind = "connect" /\ last.status # 200)
            => last.handle \notin Range(connections))

\* C3 witness: a connect has just failed on its round-trip while another
\* session is registered.
C3_Witness ==
    /\ last.req.kind = "connect"
    /\ last.status = 500
    /\ connections # <<>>

\* C4: a disconnect naming an id that is not in the session map (never
\* registered, or already removed) returns success at once and leaves the map
\* as it is; so a disconnect of an id whose disconnect already succeeded never
\* reaches close() and succeeds again, with the map unchanged.
C4_DisconnectIdempotent ==
    [][ /\ \A r \in Slots :
              (pc[r] = "idle" /\ pc'[r] \in {"closing", "yielded"})
                  => (req'[r].sid \in DOMAIN connections /\ req'[r].sid \notin disconnected)
        /\ (AnswersAtOnce /\ last'.req.kind = "disconnect") =>
              /\ last'.req.sid \notin DOMAIN connections
              /\ last'.status = 200
              /\ connections' = connections ]_vars

\* C4 witness: the second disconnect of an id whose first disconnect succeeded
\* has just returned success without touching a handle.
C4_Witness ==
    /\ last.req.kind = "disconnect"
    /\ last.req.sid \in disconnected
    /\ last.handle = 0
    /\ last.status = 200

QueryOk == last.req.kind = "query" /\ last.status = 200

\* The limit and offset the request asks for (the defaults when not numeric).
AskedLimit == IF last.req.limit.num THEN last.req.limit.val ELSE 1000
AskedOffset == IF last.req.offset.num THEN last.req.offset.val ELSE 0

\* C7: for a paginatable statement run with a limit L >= 0 and an offset
\* >= 0, where U rows of the underlying result lie after the offset: U >= L+1
\* gives exactly L rows (the first L after the offset) and hasMore = true;
\* U <= L gives exactly those U rows and hasMore = false.
C7_PaginationRoundTrip ==
    (QueryOk /\ canPaginate(last.req.sql) /\ AskedLimit >= 0 /\ AskedOffset >= 0) =>
        LET L == AskedLimit
            U == Max2(last.total - AskedOffset, 0)
        IN  /\ U >= L + 1 =>
                /\ Len(last.rows) = L
                /\ last.rows = RowRange(AskedOffset + 1, AskedOffset + L)
                /\ last.hasMore
            /\ U <= L =>
                /\ Len(last.rows) = U
                /\ last.rows = RowRange(AskedOffset + 1, AskedOffset + U)
                /\ ~last.hasMore

\* C7 witness: a page of L >= 1 rows with hasMore = true, cut from a result
\* that has at least L+1 rows after the offset.
C7_Witness ==
    /\ QueryOk /\ canPaginate(last.req.sql)
    /\ last.req.limit.num /\ AskedLimit >= 1
    /\ AskedOffset >= 1
    /\ last.total - AskedOffset >= AskedLimit + 1
    /\ last.hasMore
    /\ Len(last.rows) = AskedLimit

\* C8 as stated: in every successful query response rowCount is the number of
\* rows of the response, for every numeric limit and offset.
C8_RowCountIsLength == QueryOk => last.rowCount = Len(last.rows)

\* C10: a statement that is not paginatable reaches the handle as the text of
\* the request, unwrapped and with its semicolons, whatever limit and offset
\* say; its response has hasMore = false and all the rows of the result.
C10_DirectUnmodified ==
    /\ \A r \in Slots :
          (pc[r] = "executing" /\ ~canPaginate(req[r].sql)) =>
              /\ Len(executed[r]) = 1
              /\ ~executed[r][1].wrapped
              /\ executed[r][1].text = req[r].sql
    /\ (last.req.kind = "query" /\ ~canPaginate(last.req.sql) /\ last.stmts # <<>>) =>
          /\ Len(last.stmts) = 1
          /\ ~last.stmts[1].wrapped
          /\ last.stmts[1].text = last.req.sql
          /\ last.status = 200 =>
                /\ ~last.hasMore
                /\ last.rows = RowRange(1, last.total)
                /\ last.rowCount = last.total

\* C10 witness: a statement ending in a semicolon, not paginatable, sent with
\* a numeric limit smaller than its result, answered with all its rows.
C10_Witness ==
    /\ QueryOk /\ ~canPaginate(last.req.sql)
    /\ last.req.sql = Ins1
    /\ last.stmts = <<DirectSql(Ins1)>>
    /\ last.req.limit.num /\ last.req.limit.val >= 0
    /\ last.req.offset.num /\ last.req.offset.val >= 1
    /\ Len(last.rows) > last.req.limit.val
    /\ ~last.hasMore

\* The lexical reading of a SQL text.  A block comment runs from "/*" to the
\* nearest "*/" after it (a "/*" that is never closed is no comment); a line
\* comment runs from "--" to the end of the line.  Whitespace and comments
\* are skipped, and the first token runs from there to the next whitespace
\* or comment.
BlockEnds(s, j) == {k \in (j + 2)..(Len(s) - 1) : s[k] = "*" /\ s[k + 1] = "/"}

BlockCommentAt(s, j) ==
    j < Len(s) /\ s[j] = "/" /\ s[j + 1] = "*" /\ BlockEnds(s, j) # {}

LineCommentAt(s, j) == j < Len(s) /\ s[j] = "-" /\ s[j + 1] = "-"

RECURSIVE SkipToToken(_)
SkipToToken(s) ==
    IF s = <<>> THEN <<>>
    ELSE IF s[1] \in WS THEN SkipToToken(Tail(s))
    ELSE IF BlockCommentAt(s, 1)
         THEN SkipToToken(SubSeq(s, Min(BlockEnds(s, 1)) + 2, Len(s)))
    ELSE IF LineCommentAt(s, 1)
         THEN LET N == {j \in 3..Len(s) : s[j] = "\n"}
              IN  IF N = {} THEN <<>> ELSE SkipToToken(SubSeq(s, Min(N) + 1, Len(s)))
    ELSE s

FirstToken(s) ==
    LET t == SkipToToken(s)
        E == {j \in 1..Len(t) :
                t[j] \in WS \/ BlockCommentAt(t, j) \/ LineCommentAt(t, j)}
    IN  IF E = {} THEN t ELSE SubSeq(t, 1, Min(E) - 1)

FirstTokenIsKeyword(s) ==
    /\ Len(FirstToken(s)) = 1
    /\ FirstToken(s)[1] \in {"SELECT", "select", "WITH", "with", "TABLE", "table",
                             "VALUES", "values"}

\* C9 as stated: canPaginate(s) is true exactly when the first token of s
\* outside comments is SELECT, WITH, TABLE or VALUES in either case, comments
\* before or next to that token making no difference.
C9_FirstTokenDecides ==
    sqlOut # "?" => ((sqlOut = "paginate") <=> FirstTokenIsKeyword(sqlIn))

\* The statement of a paginated query: the wrapper the answered request
\* passed to its handle.
PaginatedAnswer ==
    last.req.kind = "query" /\ last.stmts # <<>> /\ last.stmts[1].wrapped

\* C11: the wrapper of a paginated query is built from limit 1000 exactly
\* when the request's limit is not a number and from offset 0 exactly when
\* its offset is not a number, each whatever the other field is; a numeric
\* field is used as given.
C11_IndependentDefaults ==
    /\ PaginatedAnswer =>
          /\ last.stmts[1].limit =
                (IF last.req.limit.num THEN last.req.limit.val ELSE 1000) + 1
          /\ last.stmts[1].offset =
                (IF last.req.offset.num THEN last.req.offset.val ELSE 0)
    /\ \A r \in Slots :
          (pc[r] = "executing" /\ executed[r][1].wrapped) =>
              /\ executed[r][1].limit =
                    (IF req[r].limit.num THEN req[r].limit.val ELSE 1000) + 1
              /\ executed[r][1].offset =
                    (IF req[r].offset.num THEN req[r].offset.val ELSE 0)

\* C11 witness: a request with a numeric limit and no offset has been run
\* with that limit and offset 0, and answered with its page.
C11_Witness ==
    /\ PaginatedAnswer /\ last.status = 200
    /\ last.req.limit.num /\ last.req.limit.val = 1
    /\ ~last.req.offset.num
    /\ last.stmts[1].limit = 2 /\ last.stmts[1].offset = 0
    /\ Len(last.rows) = 1 /\ last.hasMore

\* A SQL text that is empty or made of whitespace only.
Blank(sql) == Trim(sql) = <<>>

\* C12 as stated: a query whose sql is empty or whitespace-only is answered
\* 400 and no statement of it reaches a connection handle (a request that
\* names no registered session may be turned away with 404 instead).
C12_BlankSqlRejected ==
    /\ \A r \in Slots : pc[r] = "executing" => ~Blank(req[r].sql)
    /\ (last.req.kind = "query" /\ Blank(last.req.sql)) =>
          /\ last.stmts = <<>>
          /\ last.status \in {400, 404}

\* C13: the session map gives each registered id one handle and no handle to
\* two ids; a successful connect adds exactly one entry, under an id that was
\* not in the map, holding the handle that connect made, and leaves every
\* other entry as it was.
C13_ExclusiveHandles ==
    /\ [](\A s, t \in DOMAIN connections :
              connections[s] = connections[t] => s = t)
    /\ [][ (Answers /\ last'.req.kind = "connect" /\ last'.status = 200) =>
              /\ last'.sid \notin DOMAIN connections
              /\ last'.handle \notin Range(connections)
              /\ DOMAIN connections' = DOMAIN connections \cup {last'.sid}
              /\ connections'[last'.sid] = last'.handle
              /\ \A s \in DOMAIN connections : connections'[s] = connections[s] ]_vars

\* C13 witness: a connect has just succeeded and its session stands in the
\* map next to an earlier one.
C13_Witness ==
    /\ last.req.kind = "connect" /\ last.status = 200
    /\ last.sid \in DOMAIN connections
    /\ Cardinality(DOMAIN connections) >= 2

\* Positions of a query or metadata handler suspended at its await.
Looking == {"executing", "listing"}

\* C14: no step of a query or metadata request changes the session map or a
\* service handle, whatever the request is answered (200, 400, 404, 500);
\* a request that was suspended leaves its await only by one answer, which
\* frees its slot; and the statement of a query is passed to the handle
\* once: a failure is answered 500 with no second execution.
C14_LookupsLeaveRegistry ==
    [][ /\ \A r \in Slots :
              (pc'[r] # pc[r] /\ (pc[r] \in Looking \/ pc'[r] \in Looking)) =>
                  /\ connections' = connections
                  /\ svcClient' = svcClient
        /\ (AnswersAtOnce /\ last'.req.kind \in LookupKinds) =>
              /\ connections' = connections
              /\ svcClient' = svcClient
              /\ last'.status \in {400, 404, 500}
        /\ \A r \in Slots :
              (pc[r] \in Looking /\ <<pc'[r], req'[r], executed'[r]>> # <<pc[r], req[r], executed[r]>>) =>
                  /\ pc'[r] = "idle"
                  /\ Answers
                  /\ last'.req = req[r]
                  /\ last'.status \in {200, 500}
                  /\ last'.stmts = executed[r]
        /\ \A r \in Slots : pc'[r] = "executing" => Len(executed'[r]) = 1 ]_vars

\* C14 witness: a query that ran on a registered session has just been
\* answered 500 after one execution, and the session is still registered.
C14_Witness ==
    /\ last.req.kind = "query" /\ last.status = 500
    /\ Len(last.stmts) = 1
    /\ last.req.sid \in DOMAIN connections
    /\ connections[last.req.sid] = last.handle

\* C15 as stated: the error string of the 500 response of a failed connect
\* or query is the message of the error the client library raised, never a
\* generic text and never another field of the error.
C15_ErrorVerbatim == out # <<>> => out[1].error = arg.message

\* The value a decoded decimal r has is the integer n over 10^scale: as a
\* number, the double nearest to that quotient; as a string of digits (the
\* fallback for integers outside the safe range), the integer itself.
IsQuotient(r, n, scale) ==
    \/ /\ r.t = "number"
       /\ r.neg = n.neg
       /\ DoubleOf(r.mag, r.scale) = DoubleOf(n.mag, scale)
    \/ /\ r.t = "string"
       /\ r.form = "digits"
       /\ scale = 0
       /\ r.neg = n.neg
       /\ r.mag = n.mag

\* C19 as stated: decoding the w-word two's-complement representation
\* (w = 4 or 8) of a signed integer n with declared scale s yields
\* n / 10^s, and words that are all 0 yield 0 for every scale.
C19_DecimalDecode ==
    (arg.kind = "decimal" /\ out # <<>>) => IsQuotient(out[1], arg.n, arg.scale)

\* The part of C19 that the code keeps: integers of magnitude below 2^53
\* (-12345 with scale 2, and 0, among them) decode to n / 10^s.
C19_SafeRange ==
    (arg.kind = "decimal" /\ out # <<>> /\ Len(arg.n.mag) <= MantissaBits)
        => IsQuotient(out[1], arg.n, arg.scale)

\* -12345 with scale 2 was decoded from four words to -123.45.
C19_SafeWitness ==
    /\ arg.kind = "decimal"
    /\ arg.n = [neg |-> TRUE, mag |-> BitsOf(12345)]
    /\ arg.w = 4
    /\ arg.scale = 2
    /\ out # <<>>
    /\ out[1] = NumberV(TRUE, BitsOf(12345), 2)

\* The calendar, counted forwards: the days from 1970-01-01 to a date of
\* the proleptic Gregorian calendar.
IsLeap(y) == y % 4 = 0 /\ (y % 100 # 0 \/ y % 400 = 0)

LeapsBefore(y) == ((y - 1) \div 4) - ((y - 1) \div 100) + ((y - 1) \div 400)

DaysBeforeMonth(y, m) ==
    <<0, 31, 59, 90, 120, 151, 181, 212, 243, 273, 304, 334>>[m]
        + (IF m > 2 /\ IsLeap(y) THEN 1 ELSE 0)

MonthLength(y, m) ==
    IF m = 2 THEN (IF IsLeap(y) THEN 29 ELSE 28)
    ELSE IF m \in {4, 6, 9, 11} THEN 30 ELSE 31

ValidCivil(r) ==
    r.y \in 1970..9999 /\ r.m \in 1..12 /\ r.d \in 1..MonthLength(r.y, r.m)

DaysFromCivil(r) ==
    365 * (r.y - 1970) + LeapsBefore(r.y) - LeapsBefore(1970)
        + DaysBeforeMonth(r.y, r.m) + r.d - 1

\* day * 86400000 + ms in bits, by long multiplication in base 4096.
MsOfInstant(day, ms) ==
    LET a0 == DayMs % 4096
        a1 == (DayMs \div 4096) % 4096
        a2 == DayMs \div 16777216
        d0 == day % 4096
        d1 == day \div 4096
        p0 == a0 * d0 + (ms % 4096)
        p1 == a1 * d0 + a0 * d1 + ((ms \div 4096) % 4096) + (p0 \div 4096)
        p2 == a2 * d0 + a1 * d1 + (ms \div 16777216) + (p1 \div 4096)
        p3 == a2 * d1 + (p2 \div 4096)
        D(n) == [i \in 1..12 |-> BitAt(BitsOf(n % 4096), i)]
    IN  Canon(D(p0) \o D(p1) \o D(p2) \o D(p3) \o BitsOf(p3 \div 4096))

\* lo < v < hi for a number v and naturals lo, hi in bits.
Between(lo, v, hi) ==
    /\ ~v.neg
    /\ Less(lo, IntPart(v)) \/ (lo = IntPart(v) /\ HasFraction(v))
    /\ Less(IntPart(v), hi)

\* r is the ISO-8601 datetime of v epoch-milliseconds.
IsDateTimeOf(r, v) ==
    /\ r.t = "string"
    /\ r.form = "datetime"
    /\ ValidCivil(r)
    /\ r.ms \in 0..(DayMs - 1)
    /\ MsOfInstant(DaysFromCivil(r), r.ms) = IntPart(v)

\* r is the ISO date of 1970-01-01 plus v days.
IsDateOf(r, v) ==
    /\ r.t = "string"
    /\ r.form = "date"
    /\ ValidCivil(r)
    /\ DaysFromCivil(r) = ToInt(IntPart(v))

\* A number was normalized on a column whose type name contains "date" or
\* "timestamp".
NumberOnDateColumn ==
    arg.kind = "cell" /\ arg.value.t = "number" /\ arg.type \in DateTypes /\ out # <<>>

\* C18: a number v on a date or timestamp column becomes the ISO datetime
\* of v epoch-milliseconds when 86400000 < v < 253402300800000, otherwise
\* the ISO date of 1970-01-01 plus v days when 0 < v < 100000, and is
\* returned unchanged otherwise; no v is in both ranges.
C18_DateHeuristic ==
    NumberOnDateColumn =>
        LET v      == arg.value
            inMs   == Between(BitsOf(DayMs), v, MaxTimestamp)
            inDays == Between(<<>>, v, BitsOf(MaxEpochDays))
        IN  /\ ~(inMs /\ inDays)
            /\ inMs => IsDateTimeOf(out[1], v)
            /\ (~inMs /\ inDays) => IsDateOf(out[1], v)
            /\ (~inMs /\ ~inDays) => out[1] = v

\* 1700000000000 on a Timestamp column became 2023-11-14T22:13:20.000Z.
C18_Witness ==
    /\ NumberOnDateColumn
    /\ arg.value = NumberV(FALSE, FromHalves(101327, 15034368), 0)
    /\ arg.type = <<"Timestamp", "<", "MICROSECOND", ">">>
    /\ out[1] = IsoDateTimeV([y |-> 2023, m |-> 11, d |-> 14], 80000000)

\* C17 as stated: the normalizer is total and idempotent: for every cell
\* and declared type it returns a value without failing, and normalizing
\* that value again with the same type returns it unchanged.
C17_TotalIdempotent ==
    /\ out # <<>> => out[1].t # "throw"
    /\ Len(out) = 2 => out[2] = out[1]

\* The half of C17 that the code keeps: a value the normalizer returned is
\* returned unchanged when normalized again with the same type.
C17_Idempotent == Len(out) = 2 => out[2] = out[1]

\* A number on a timestamp column was normalized to an ISO string, and that
\* string was normalized again.
C17_IdempotentWitness ==
    /\ Len(out) = 2
    /\ arg.value.t = "number"
    /\ out[1].t = "string"
    /\ out[2] = out[1]

\* The rows of a result each have one entry per column descriptor, and a
\* null cell is an entry with the value null.
OneEntryPerColumn(table, result) ==
    \A i \in 1..Len(result.rows) :
        /\ Len(result.rows[i].keys) = Len(result.columns)
        /\ \A k \in 1..Len(table.fields) :
              table.rows[i][k] = NullV =>
                  \E j \in 1..Len(result.rows[i].keys) :
                      /\ result.rows[i].keys[j] = table.fields[k].name
                      /\ (\A h \in 1..Len(table.fields) :
                             table.fields[h].name = table.fields[k].name => h = k)
                            => result.rows[i].vals[j] = NullV

\* C16 as stated: the columns of a result follow the field order of the
\* schema, and every row has exactly one entry per column descriptor, also
\* when two columns carry the same name; a null cell is present as null.
C16_OneEntryPerColumn ==
    out # <<>> =>
        /\ out[1].t = "result"
        /\ Len(out[1].columns) = Len(arg.fields)
        /\ \A k \in 1..Len(arg.fields) : out[1].columns[k].name = arg.fields[k].name
        /\ OneEntryPerColumn(arg, out[1])

\* The part of C16 that the code keeps: when no two columns carry the same
\* name, every row has one entry per column and nulls are entries.
C16_DistinctNames ==
    (out # <<>> /\ \A h, k \in 1..Len(arg.fields) :
                      arg.fields[h].name = arg.fields[k].name => h = k)
        => (out[1].t = "result" /\ OneEntryPerColumn(arg, out[1]))

\* A row of two columns a and b with a null under a was built.
C16_DistinctWitness ==
    /\ out # <<>>
    /\ Len(arg.fields) = 2
    /\ arg.fields[1].name = "a"
    /\ arg.fields[2].name = "b"
    /\ arg.rows = <<<<NullV, IntV(1)>>>>
    /\ out[1].rows = <<ObjectV(<<"a", "b">>, <<NullV, IntV(1)>>)>>

\* text is sql cut at its end, and what was cut off is semicolons and
\* whitespace only.
CutAtSemicolons(sql, text) ==
    /\ Len(text) <= Len(sql)
    /\ SubSeq(sql, 1, Len(text)) = text
    /\ \A i \in (Len(text) + 1)..Len(sql) : sql[i] \in {";"} \cup WS

\* text is sql with its trailing semicolons removed: cut at semicolons, and
\* not ending in a semicolon any more.
SemicolonsRemoved(sql, text) ==
    /\ CutAtSemicolons(sql, text)
    /\ TrimEnd(text) = <<>> \/ TrimEnd(text)[Len(TrimEnd(text))] # ";"

\* The statements a paginated request passed to its handle, while it is
\* executing and when it is answered, with the request.
PaginatedRuns ==
    {<<req[r], executed[r]>> :
        r \in {x \in Slots : pc[x] = "executing" /\ canPaginate(req[x].sql)}}
      \cup (IF last.req.kind = "query" /\ canPaginate(last.req.sql) /\ last.stmts # <<>>
            THEN {<<last.req, last.stmts>>} ELSE {})

\* One wrapper with row bound limit + 1 and the requested offset.
OneWrapper(rq, stmts) ==
    /\ Len(stmts) = 1
    /\ stmts[1].wrapped
    /\ stmts[1].limit = (IF rq.limit.num THEN rq.limit.val ELSE 1000) + 1
    /\ stmts[1].offset = (IF rq.offset.num THEN rq.offset.val ELSE 0)

\* C20 as stated: a paginated query request executes exactly one statement
\* on its handle, the wrapper SELECT * FROM (<sql with trailing semicolons
\* removed>) AS <alias> LIMIT <limit+1> OFFSET <offset>, and no counting
\* statement.
C20_OneWrappedStatement ==
    \A run \in PaginatedRuns :
        /\ OneWrapper(run[1], run[2])
        /\ SemicolonsRemoved(run[1].sql, run[2][1].text)

\* The part of C20 that the code keeps: one wrapper per paginated request,
\* with row bound limit + 1 and the requested offset, around the sql cut at
\* semicolons.
C20_OneStatement ==
    \A run \in PaginatedRuns :
        /\ OneWrapper(run[1], run[2])
        /\ CutAtSemicolons(run[1].sql, run[2][1].text)

\* A paginated request with limit 2 and offset 1 was answered after one
\* wrapper with LIMIT 3 OFFSET 1 around its sql without the semicolons.
C20_OneStatementWitness ==
    /\ QueryOk
    /\ last.req.sql = <<"select", " ", "1", ";", ";", "\n">>
    /\ last.req.limit = Num(2)
    /\ last.req.offset = Num(1)
    /\ last.stmts = <<[wrapped |-> TRUE, text |-> <<"select", " ", "1">>,
                       limit |-> 3, offset |-> 1]>>

-----------------------------------------------------------------------------
(* Plain objects: decimal word buffers and structs.                         *)

\* The object is normalized field by field: the same keys, each value
\* normalized with no type (the first failure, if one fails).
StructOf(value) ==
    LET kids == [i \in 1..Len(value.keys) |-> convertValue(value.vals[i], <<>>)]
    IN  IF Throws(kids) # {} THEN kids[SetMin(Throws(kids))]
        ELSE ObjectV(value.keys, kids)

\* Between 1 and 8 keys, which are "0", "1", ... in this order.
ConsecutiveKeys(value) ==
    /\ Len(value.keys) \in 1..8
    /\ \A i \in 1..Len(value.keys) : value.keys[i] = IndexKeys[i]

\* Between 1 and 8 keys, each of them made of digits.
DigitKeys(value) ==
    /\ Len(value.keys) \in 1..8
    /\ \A i \in 1..Len(value.keys) : IsIndexKey(value.keys[i])

\* C21 as stated: a plain object is decoded as decimal words only when it
\* has 1 to 8 keys, the keys are the consecutive strings "0", "1", ... from
\* "0" on, and the type name of the column contains "decimal"; every other
\* object comes back as a struct normalized field by field.
C21_DecimalBufferRule ==
    (out # <<>> /\ arg.value.t = "object"
        /\ ~(ConsecutiveKeys(arg.value) /\ IsDecimalType(arg.type)))
        => out[1] = StructOf(arg.value)

\* The part of C21 that the code keeps: an object with a key that is not
\* made of digits, with no key or more than 8 keys, or on a column whose
\* type name does not contain "decimal", comes back as a struct.
C21_DigitKeysRule ==
    (out # <<>> /\ arg.value.t = "object"
        /\ ~(DigitKeys(arg.value) /\ IsDecimalType(arg.type)))
        => out[1] = StructOf(arg.value)

\* An object of nine numeric keys on a decimal column came back as a struct.
C21_StructWitness ==
    /\ out # <<>>
    /\ arg.value.t = "object"
    /\ Len(arg.value.keys) = 9
    /\ IsDecimalType(arg.type)
    /\ out[1].t = "object"

-----------------------------------------------------------------------------
(* The external client of a session: close, and handles left behind.        *)

\* The handler in slot r calls client.close() in this step.
InvokesClose(r) == pc[r] = "idle" /\ pc'[r] = "closing"

\* C24 as stated: client.close() is invoked at most once on the external
\* client of a session, for any number of disconnect requests on the
\* session id and any interleaving: each call finds a client on which
\* close() was never called before.
C24_ClosedAtMostOnce ==
    [][\A r \in Slots : InvokesClose(r) => client[svc'[r]] = "open"]_vars

\* The part of C24 that the code keeps: close() is never called on a client
\* whose close() has succeeded.
C24_NoCloseAfterClosed ==
    [][\A r \in Slots : InvokesClose(r) => client[svc'[r]] # "closed"]_vars

\* Two disconnect requests of one session are both awaiting close().
C24_TwoClosesWitness ==
    \E r, q \in Slots :
        r # q /\ pc[r] = "closing" /\ pc[q] = "closing" /\ svc[r] = svc[q]

\* The handle is registered in the session map.
Registered(h) == \E s \in DOMAIN connections : connections[s] = h

\* The handle belongs to a connect request that has not settled.
Connecting(h) == \E r \in Slots : pc[r] = "connecting" /\ svc[r] = h

\* C25 as stated: every external client that connect created and that has
\* not been closed is registered under a session id or belongs to a connect
\* request in progress; a client whose test round-trip failed is not left
\* open and unregistered.
C25_NoLeakedHandle ==
    \A h \in DOMAIN client : client[h] # "closed" => Registered(h) \/ Connecting(h)

\* The part of C25 that the code keeps: the client of a session that connect
\* returned stays registered under that session id until it is closed.
C25_SessionsRegistered ==
    \A s \in DOMAIN owner :
        client[owner[s]] # "closed" => getConnection(connections, s) = owner[s]

\* A session whose close() failed is still registered, its client not closed.
C25_RegisteredWitness ==
    \E s \in DOMAIN owner :
        client[owner[s]] = "failed" /\ getConnection(connections, s) = owner[s]

-----------------------------------------------------------------------------
(* Requests of a session under a concurrent disconnect.                     *)

\* The handler in slot r awaits client.execute or a listing of the client.
Running(r) == pc[r] \in {"executing", "listing"}

\* A query or listing answers 500 without reaching its await: the service
\* it found in the map threw 'Not connected to GizmoSQL server'.
NotConnectedFailure ==
    /\ pc' = pc
    /\ last = NoResponse
    /\ last'.status = 500
    /\ last'.req.kind \in {"query"} \cup MetaKinds

\* C23 as stated: the handle a query or metadata request obtained from the
\* registry is open for the whole execution of the request, under every
\* interleaving with a disconnect of the same session: no request runs on a
\* client that is closed or being closed, and none ends in a not-connected
\* failure answered with 500.
C23_HandleUsable ==
    /\ [](\A r \in Slots : Running(r) => client[svc[r]] \notin {"closing", "closed"})
    /\ [][~NotConnectedFailure]_vars

\* The part of C23 that the code keeps: at the moment a request obtains its
\* handle and calls the client, the client is not closed, and no request
\* ends in a not-connected failure.
C23_OpenAtStart ==
    [][/\ \A r \in Slots :
            (pc[r] = "idle" /\ Running(r)') => client[svc'[r]] # "closed"
       /\ ~NotConnectedFailure]_vars

\* A query is running on a session while a disconnect of it awaits close().
C23_RaceWitness ==
    \E r, q \in Slots :
        pc[r] = "executing" /\ pc[q] = "closing" /\ svc[r] = svc[q]

-----------------------------------------------------------------------------
(* The notebook list and the active notebook.                               *)

\* activeNotebookId is null or names a notebook of the list, and is not null
\* when the list is not empty.
ActiveIsListed ==
    /\ activeNotebookId # 0 => HasId(notebooks, activeNotebookId)
    /\ notebooks # <<>> => activeNotebookId # 0

\* The step deletes the active notebook.
DeletesActive ==
    /\ Len(notebooks') < Len(notebooks)
    /\ ~HasId(notebooks', activeNotebookId)

\* C29: under create, delete, rename and select, activeNotebookId is null
\* or the id of a notebook of the list and is not null when the list is not
\* empty; a step that deletes the active notebook makes the first remaining
\* notebook active; the last remaining notebook is never deleted.
C29_ActiveNotebook ==
    /\ []ActiveIsListed
    /\ [][/\ DeletesActive => activeNotebookId' = notebooks'[1].id
          /\ notebooks # <<>> => notebooks' # <<>>]_vars

\* Two notebooks were created, the first one was deleted and the second,
\* the only one left, is active.
C29_Witness ==
    /\ Len(notebooks) = 1
    /\ notebooks[1].id = 3
    /\ activeNotebookId = 3

-----------------------------------------------------------------------------
(* Run on a cell without usable server while one server is connected.      *)

\* The step runs the scheduled callback t while the servers stay listed.
RunsTimer(t) ==
    /\ t \in timers
    /\ timers' = timers \ {t}
    /\ servers # <<>>
    /\ servers' = servers

\* A query of the cell leaves in the step, carrying the session id.
SendsQuery(notebookId, cellId, sessionId) ==
    \E c \in calls' \ calls :
        /\ c.op = "query"
        /\ c.notebookId = notebookId /\ c.cellId = cellId
        /\ c.carried = sessionId

\* The step is handleExecute on a cell without usable server while exactly
\* one server is connected: the callback is scheduled.
SchedulesTimer(t) ==
    /\ t \notin timers
    /\ timers' = timers \cup {t}

\* C22: when Run is triggered on a cell that has no server, or a server id
\* that is no longer listed, while exactly one server is connected, the cell
\* is given that server, and the scheduled executeCell then sends the query
\* of the cell to the session of that server (the cell still holding the
\* server and the statement it had at Run when the callback runs).
C22_QuerySent ==
    /\ [][\A t \in timers' :
            SchedulesTimer(t) =>
                CellOf(State', t.notebookId, t.cellId).serverId = servers[1].id]_vars
    /\ [][\A t \in timers :
            (/\ RunsTimer(t)
             /\ Len(servers) = 1
             /\ CellOf(State, t.notebookId, t.cellId).serverId = servers[1].id
             /\ ~BlankSql(CellOf(State, t.notebookId, t.cellId).sql)
             /\ CellOf(t.snap, t.notebookId, t.cellId).sql
                    = CellOf(State, t.notebookId, t.cellId).sql)
            => SendsQuery(t.notebookId, t.cellId, servers[1].sessionId)]_vars

\* The part of C22 that the code keeps: the cell is given the one server
\* connected when the callback is scheduled.
C22_ServerAssigned ==
    [][\A t \in timers' :
          SchedulesTimer(t) =>
              /\ Len(servers) = 1
              /\ CellOf(State', t.notebookId, t.cellId).serverId = servers[1].id]_vars

\* A callback is scheduled for a cell that holds a statement and has been
\* given the one server connected.
C22_ScheduledWitness ==
    \E t \in timers :
        /\ Len(servers) = 1
        /\ CellOf(State, t.notebookId, t.cellId).serverId = servers[1].id
        /\ ~BlankSql(CellOf(State, t.notebookId, t.cellId).sql)
        /\ CellOf(t.snap, t.notebookId, t.cellId).sql
               = CellOf(State, t.notebookId, t.cellId).sql

-----------------------------------------------------------------------------
(* Requests of one cell.                                                   *)

\* The query requests in flight for the cell.
QueriesOf(notebookId, cellId) ==
    {c \in calls : c.op = "query" /\ c.notebookId = notebookId /\ c.cellId = cellId}

\* C26: at most one query request is in flight for a cell at any time, and
\* no request for a cell starts while its isExecuting flag is true.
C26_OneRequestPerCell ==
    /\ [](\A x \in CellsShown : Cardinality(QueriesOf(x[1], x[2])) <= 1)
    /\ [][\A c \in calls' \ calls :
            c.op = "query" => ~CellOf(State, c.notebookId, c.cellId).isExecuting]_vars

-----------------------------------------------------------------------------
(* The isExecuting flag of a cell.                                         *)

\* The step is the arrival of the response of the query request c (the
\* page stays loaded: its servers stay listed).
ResponseArrives(c) ==
    /\ c \in calls
    /\ c.op = "query"
    /\ calls' = calls \ {c}
    /\ servers # <<>>
    /\ servers' = servers

\* The flag of the cell is false after every response of a request of it.
FlagCleared ==
    \A c \in calls :
        ResponseArrives(c) => ~CellOf(State', c.notebookId, c.cellId).isExecuting

\* C27: a cell has isExecuting = true only while a request issued for it is
\* outstanding (also after the state was saved and loaded again), and every
\* response, success or failure, sets the flag back to false.
C27_ExecutingOnlyWhileOutstanding ==
    /\ [](\A x \in CellsShown :
            CellOf(State, x[1], x[2]).isExecuting => QueriesOf(x[1], x[2]) # {})
    /\ [][FlagCleared]_vars

\* The part of C27 that the code keeps: every response sets the flag of its
\* cell back to false.
C27_ResponseClearsFlag == [][FlagCleared]_vars

-----------------------------------------------------------------------------
(* Overlapping requests of one cell.                                       *)

\* The result stored in the cell is the one of the request started last
\* among those answered with a result: a response that arrives does not
\* replace the result of a request started after its own.
NewestResultKept ==
    \A c \in calls :
        ResponseArrives(c) =>
            CellOf(State', c.notebookId, c.cellId).result.request
                >= CellOf(State, c.notebookId, c.cellId).result.request

\* C28: when executions or page fetches of one cell overlap, the result
\* stored in the cell once all responses have arrived is the result of the
\* request started last, whatever the order of the responses.
C28_LastStartedWins == [][NewestResultKept]_vars

-----------------------------------------------------------------------------
(* The session id on the requests of the one ApiClient.                    *)

\* The request c, sent in this step, carries the session id of the server
\* its operation was issued for, and so neither null nor the session id of
\* another server.
CarriesOwnSession(c) ==
    /\ c.carried # 0
    /\ HasId(servers, c.serverId)
    /\ c.carried = ServerOf(State, c.serverId).sessionId
    /\ \A i \in 1..Len(servers) :
          servers[i].id # c.serverId => c.carried # servers[i].sessionId

\* C30 as stated: every request sent, of executeCell, fetchCellPage, a
\* listing, connect or disconnect, carries the session id of the server the
\* operation was issued for, never another server's and never null.
C30_EveryRequest == [][\A c \in calls' \ calls : CarriesOwnSession(c)]_vars

\* C30: every query, page fetch, listing and disconnect request that is sent
\* carries the session id of the server the operation was issued for, never
\* another server's and never null, whatever connect and disconnect calls
\* complete in between; a connect request is issued for no server and is sent
\* with whatever session id the client holds.
C30_RequestsOfAServer ==
    [][\A c \in calls' \ calls : c.op # "connect" => CarriesOwnSession(c)]_vars

\* A request of one server is in flight while the client holds the session
\* id of another server that is connected.
C30_Witness ==
    \E c \in calls :
        /\ c.op \in {"query", "disconnect"} \cup ListKinds
        /\ apiSessionId # 0
        /\ apiSessionId # c.carried
        /\ \E i \in 1..Len(servers) :
              servers[i].sessionId = apiSessionId /\ servers[i].id # c.serverId

====
